---------------------------- MODULE Spec2Model ----------------------------
(***************************************************************************)
(* A model of the enhanced retrieval pipeline of                           *)
(* src/rag-advanced/rag_pipeline_enhanced.py (class EnhancedRAGPipeline):  *)
(* hybrid (dense + BM25) fusion, query decomposition, context compression  *)
(* and the query() orchestration.                                          *)
(*                                                                         *)
(* Conventions                                                             *)
(*  - a Python dict is a TLA+ function with a set of strings as domain; a  *)
(*    key that is absent from the dict is absent from the domain;          *)
(*  - Python's None is the value None below;                               *)
(*  - a float is an exact rational <<n, d>> with d > 0 in lowest terms      *)
(*    (rounding is not modelled);                                          *)
(*  - a Python str that the code inspects character by character (the      *)
(*    query) is a sequence of one-character strings.                       *)
(***************************************************************************)
EXTENDS Integers, Sequences, FiniteSets, TLC

(***************************************************************************)
(* Bounds of the model.                                                    *)
(***************************************************************************)
\* longest ranked answer the external index gives to one search
MaxRes == 2
\* largest top_k handed to hybrid_search
MaxTopK == 2
\* most phrases of a query
MaxWords == 3
\* most documents handed to compress_context
MaxDocs == 2
\* largest top_k handed to query()
MaxQueryTopK == 1
\* query() calls made one after another on one pipeline
MaxCalls == 2
\* pipelines built one after another in one process
MaxPipelines == 3

(***************************************************************************)
(* Python values.                                                          *)
(***************************************************************************)
None == "<None>"

\* x or default : None, '' and 0 are falsy
Or(x, default) == IF x = None \/ x = "" \/ x = "0" THEN default ELSE x

\* dict.get(key) : None when the key is absent
Get(doc, f) == IF f \in DOMAIN doc THEN doc[f] ELSE None

\* dict[key] = value on a copy of the dict
Put(doc, f, v) == (f :> v) @@ doc

\* list[:n]
Take(list, n) == SubSeq(list, 1, IF n < Len(list) THEN n ELSE Len(list))

RECURSIVE GCD(_, _)
GCD(a, b) == IF b = 0 THEN a ELSE GCD(b, a % b)

Abs(x) == IF x < 0 THEN -x ELSE x

\* the rational n/d (d # 0) in lowest terms with a positive denominator
Rat(n, d) ==
    LET g == GCD(Abs(n), Abs(d))
        s == IF d < 0 THEN -1 ELSE 1
    IN  <<(s * n) \div g, (s * d) \div g>>

RZero == <<0, 1>>
ROne == <<1, 1>>
RAdd(x, y) == Rat(x[1] * y[2] + y[1] * x[2], x[2] * y[2])
RSub(x, y) == Rat(x[1] * y[2] - y[1] * x[2], x[2] * y[2])
RMul(x, y) == Rat(x[1] * y[1], x[2] * y[2])
\* x / y for y # 0
RDiv(x, y) == Rat(x[1] * y[2], x[2] * y[1])
RLess(x, y) == x[1] * y[2] < y[1] * x[2]
RLeq(x, y) == x[1] * y[2] <= y[1] * x[2]

RECURSIVE MaxOf(_)
\* max(list) of a non-empty list of numbers
MaxOf(list) ==
    IF Len(list) = 1 THEN list[1]
    ELSE LET m == MaxOf(Tail(list))
         IN  IF RLeq(m, list[1]) THEN list[1] ELSE m


(***************************************************************************)
(* Candidates.  The identity key of a candidate is built from its four     *)
(* structural fields; a missing or None field becomes 'unknown' (0 for the *)
(* year).  The code joins the four parts with "_" into one string; the     *)
(* model keeps the four parts as a tuple.  The year is kept as its decimal *)
(* rendering, which is all the f-string uses.                              *)
(***************************************************************************)
\* variant: the fields as they are, without the sentinels
IdentityKeyAsStored(doc) ==
    << Get(doc, "bank_name"), Get(doc, "quarter"), Get(doc, "year"),
       Get(doc, "report_type") >>

IdentityKey(doc) ==
    << Or(Get(doc, "bank_name"), "unknown"),
       Or(Get(doc, "quarter"), "unknown"),
       Or(Get(doc, "year"), "0"),
       Or(Get(doc, "report_type"), "unknown") >>

\* doc.get(field, 0) or 0 for a numeric field
NumOr0(doc, f) == IF f \in DOMAIN doc THEN doc[f] ELSE RZero

\* doc.get('normalized_score', 0)
NormOr0(doc) ==
    IF "normalized_score" \in DOMAIN doc THEN doc["normalized_score"] ELSE RZero

\* the identity fields the external index can answer with
Banks == <<"Halyk Bank", "Kaspi Bank", "ForteBank">>

IndexKeys ==
    { [bank_name |-> b, quarter |-> "Q4", year |-> "2024",
       report_type |-> "financial_statement"] : b \in {Banks[1], Banks[2]} }

\* raw scores of the index: a cosine distance d lies in [0, 2], so that the
\* similarity 1 - d can be negative; a BM25 score is never negative
Distances == {<<0, 1>>, <<1, 2>>, <<3, 2>>}
Bm25Scores == {<<0, 1>>, <<1, 1>>, <<2, 1>>}

\* one object of the index's answer to a nearest-neighbour search
DenseObjects == { [props |-> k, distance |-> d] : k \in IndexKeys, d \in Distances }
\* one object of the index's answer to a BM25 search
SparseObjects == { [props |-> k, score |-> s] : k \in IndexKeys, s \in Bm25Scores }

SeqsUpTo(S, n) == UNION { [1..m -> S] : m \in 0..n }

\* the index ranks its answers: nearest first, highest BM25 score first
DenseAnswers(n) ==
    { s \in SeqsUpTo(DenseObjects, n) :
        \A i \in 1..(Len(s) - 1) : RLeq(s[i].distance, s[i + 1].distance) }

SparseAnswers(n) ==
    { s \in SeqsUpTo(SparseObjects, n) :
        \A i \in 1..(Len(s) - 1) : RLeq(s[i + 1].score, s[i].score) }

\* the content stored with an identity, as characters
ContentOf(k) ==
    CASE Get(k, "bank_name") = "Halyk Bank" -> <<"H", "a", "l", "y", "k">>
      [] Get(k, "bank_name") = "Kaspi Bank" -> <<"K", "a", "s", "p", "i", " ", "r", "e", "p", "o", "r", "t">>
      [] OTHER -> <<"F", "o", "r", "t", "e", " ", "Q", "4">>

\* vector_search: the documents built from the first `limit` objects of the
\* index's answer
VectorDoc(obj) ==
    [ bank_name |-> Get(obj.props, "bank_name"), quarter |-> Get(obj.props, "quarter"),
      year |-> Get(obj.props, "year"), report_type |-> Get(obj.props, "report_type"),
      content |-> ContentOf(obj.props),
      distance |-> obj.distance, similarity |-> RSub(ROne, obj.distance),
      source |-> "vector" ]

vector_search(answer, limit) ==
    LET objs == Take(answer, limit)
    IN  [i \in 1..Len(objs) |-> VectorDoc(objs[i])]

Bm25Doc(obj) ==
    [ bank_name |-> Get(obj.props, "bank_name"), quarter |-> Get(obj.props, "quarter"),
      year |-> Get(obj.props, "year"), report_type |-> Get(obj.props, "report_type"),
      content |-> ContentOf(obj.props),
      score |-> obj.score, source |-> "bm25" ]

bm25_search(answer, limit, level) ==
    IF level < 1 THEN <<>>
    ELSE LET objs == Take(answer, limit)
         IN  [i \in 1..Len(objs) |-> Bm25Doc(objs[i])]

(***************************************************************************)
(* hybrid_search, lines 313-326: each list's scores divided by the list's  *)
(* maximum, 0 for every element when the maximum is not positive.          *)
(***************************************************************************)
\* variant: the guard without the division
NormalizedValueUndivided(value, max) == IF RLess(RZero, max) THEN value ELSE RZero

NormalizedValue(value, max) == IF RLess(RZero, max) THEN RDiv(value, max) ELSE RZero

Normalize(list, f) ==
    IF list = <<>> THEN list
    ELSE LET max == MaxOf([i \in 1..Len(list) |-> NumOr0(list[i], f)])
         IN  [i \in 1..Len(list) |->
                Put(list[i], "normalized_score",
                    NormalizedValue(NumOr0(list[i], f), max))]

(***************************************************************************)
(* hybrid_search, lines 328-352: the dict `merged`, as the sequence of its *)
(* (key, value) items in insertion order.  Assigning to a key the dict     *)
(* already holds replaces the value and keeps the key's position.          *)
(***************************************************************************)
HasKey(merged, key) == \E i \in 1..Len(merged) : merged[i].key = key

IndexOfKey(merged, key) == CHOOSE i \in 1..Len(merged) : merged[i].key = key

DictSet(merged, key, doc) ==
    IF HasKey(merged, key)
    THEN [merged EXCEPT ![IndexOfKey(merged, key)].doc = doc]
    ELSE Append(merged, [key |-> key, doc |-> doc])

\* variant: the dense term weighted with 1 - alpha
DenseStepSparseWeight(merged, doc, alpha) ==
    DictSet(merged, IdentityKey(doc),
            Put(doc, "hybrid_score", RMul(RSub(ROne, alpha), NormOr0(doc))))

DenseStep(merged, doc, alpha) ==
    DictSet(merged, IdentityKey(doc),
            Put(doc, "hybrid_score", RMul(alpha, NormOr0(doc))))

\* variant: the sparse term weighted with alpha
SparseContributionDenseWeight(doc, alpha) == RMul(alpha, NormOr0(doc))

SparseContribution(doc, alpha) == RMul(RSub(ROne, alpha), NormOr0(doc))

SparseStep(merged, doc, alpha) ==
    LET key == IdentityKey(doc)
    IN  IF HasKey(merged, key)
        THEN LET i == IndexOfKey(merged, key)
                 old == merged[i].doc
             IN  [merged EXCEPT ![i].doc =
                    Put(Put(old, "hybrid_score",
                            RAdd(old["hybrid_score"], SparseContribution(doc, alpha))),
                        "source", "hybrid")]
        ELSE Append(merged, [key |-> key,
                             doc |-> Put(doc, "hybrid_score",
                                         SparseContribution(doc, alpha))])

RECURSIVE MergeDense(_, _, _)
MergeDense(merged, list, alpha) ==
    IF list = <<>> THEN merged
    ELSE MergeDense(DenseStep(merged, Head(list), alpha), Tail(list), alpha)

RECURSIVE MergeSparse(_, _, _)
MergeSparse(merged, list, alpha) ==
    IF list = <<>> THEN merged
    ELSE MergeSparse(SparseStep(merged, Head(list), alpha), Tail(list), alpha)

(***************************************************************************)
(* sorted(..., key=hybrid_score, reverse=True): a stable sort, so elements *)
(* with equal scores keep their order.                                     *)
(***************************************************************************)
RECURSIVE InsertByScore(_, _)
\* insert doc behind every element whose score is >= its own
InsertByScore(sorted, doc) ==
    IF sorted = <<>> THEN <<doc>>
    ELSE IF RLeq(doc["hybrid_score"], Head(sorted)["hybrid_score"])
         THEN <<Head(sorted)>> \o InsertByScore(Tail(sorted), doc)
         ELSE <<doc>> \o sorted

RECURSIVE SortByHybridScore(_)
SortByHybridScore(list) ==
    IF list = <<>> THEN <<>>
    ELSE InsertByScore(SortByHybridScore(SubSeq(list, 1, Len(list) - 1)),
                       list[Len(list)])

\* variant: the values of the dict, last inserted key first
MergedValuesLastFirst(merged) ==
    [i \in 1..Len(merged) |-> merged[Len(merged) + 1 - i].doc]

\* line 355: merged.values(), in the insertion order of the keys
MergedValues(merged) == [i \in 1..Len(merged) |-> merged[i].doc]

(***************************************************************************)
(* hybrid_search(query, top_k, metadata_filter, alpha), lines 289-356, for *)
(* the answers the index gives to the two searches.  The result records    *)
(* the two lists as they are after normalization, the dict and the         *)
(* returned list.                                                          *)
(***************************************************************************)
\* variant: the other list returned whole
FirstTopKUncut(list, k) == list

\* lines 308-311: list[:top_k] of the list that is not empty
FirstTopK(list, k) == Take(list, k)

hybrid_search(dense_answer, sparse_answer, k, a, level) ==
    IF level < 1
    THEN LET v == vector_search(dense_answer, k)
         IN  [vector_results |-> v, bm25_results |-> <<>>, merged |-> <<>>,
              results |-> v, path |-> "vector_only"]
    ELSE
    LET v == vector_search(dense_answer, k * 2)
        b == bm25_search(sparse_answer, k * 2, level)
    IN  IF v = <<>> /\ b = <<>>
        THEN [vector_results |-> v, bm25_results |-> b, merged |-> <<>>,
              results |-> <<>>, path |-> "both_empty"]
        ELSE IF v = <<>>
        THEN [vector_results |-> v, bm25_results |-> b, merged |-> <<>>,
              results |-> FirstTopK(b, k), path |-> "bm25_only"]
        ELSE IF b = <<>>
        THEN [vector_results |-> v, bm25_results |-> b, merged |-> <<>>,
              results |-> FirstTopK(v, k), path |-> "dense_only"]
        ELSE LET nv == Normalize(v, "similarity")
                 nb == Normalize(b, "score")
                 m  == MergeSparse(MergeDense(<<>>, nv, a), nb, a)
             IN  [vector_results |-> nv, bm25_results |-> nb, merged |-> m,
                  results |-> Take(SortByHybridScore(MergedValues(m)), k),
                  path |-> "fused"]


(***************************************************************************)
(* Strings the code inspects, as sequences of characters.                  *)
(***************************************************************************)
UpperCase == <<"A","B","C","D","E","F","G","H","I","J","K","L","M",
               "N","O","P","Q","R","S","T","U","V","W","X","Y","Z">>
LowerCase == <<"a","b","c","d","e","f","g","h","i","j","k","l","m",
               "n","o","p","q","r","s","t","u","v","w","x","y","z">>
Digits == {"0","1","2","3","4","5","6","7","8","9"}

Range(f) == { f[i] : i \in DOMAIN f }

\* the characters that have another letter case, with that other case
ToLower == [c \in Range(UpperCase) |-> LowerCase[CHOOSE i \in 1..26 : UpperCase[i] = c]]
ToUpper == [c \in Range(LowerCase) |-> UpperCase[CHOOSE i \in 1..26 : LowerCase[i] = c]]

LowerChar(c) == IF c \in DOMAIN ToLower THEN ToLower[c] ELSE c

UpperChar(c) == IF c \in DOMAIN ToUpper THEN ToUpper[c] ELSE c

\* str.lower(), str.upper()
Lower(str) == [i \in 1..Len(str) |-> LowerChar(str[i])]
Upper(str) == [i \in 1..Len(str) |-> UpperChar(str[i])]

\* str occurs in text at position i
OccursAt(text, i, str) ==
    /\ i >= 1
    /\ i + Len(str) - 1 <= Len(text)
    /\ \A j \in 1..Len(str) : text[i + j - 1] = str[j]

\* str in text
Contains(text, str) == \E i \in 1..(Len(text) + 1) : OccursAt(text, i, str)

RECURSIVE ReplaceFrom(_, _, _, _)
\* text[i:].replace(old, new) for a non-empty old: occurrences are replaced
\* from left to right, without overlap
ReplaceFrom(text, i, old, new) ==
    IF i > Len(text) THEN <<>>
    ELSE IF OccursAt(text, i, old)
         THEN new \o ReplaceFrom(text, i + Len(old), old, new)
         ELSE <<text[i]>> \o ReplaceFrom(text, i + 1, old, new)

\* str.replace(old, new)
Replace(text, old, new) == ReplaceFrom(text, 1, old, new)

\* \w and \s of the regular expressions
WordChars == Range(UpperCase) \cup Range(LowerCase) \cup Digits \cup {"_"}
IsWordChar(c) == c \in WordChars
IsSpace(c) == c = " "

\* \b between text[i-1] and text[i]
BoundaryBefore(text, i) ==
    LET left  == i > 1 /\ i - 1 <= Len(text) /\ IsWordChar(text[i - 1])
        right == i >= 1 /\ i <= Len(text) /\ IsWordChar(text[i])
    IN  left # right

\* the text starts, at position i, with str in any letter case
OccursAtIgnoreCase(text, i, str) ==
    /\ i >= 1
    /\ i + Len(str) - 1 <= Len(text)
    /\ \A j \in 1..Len(str) : LowerChar(text[i + j - 1]) = LowerChar(str[j])

\* the length of the match of \bQ[1-4]\b (IGNORECASE) that starts at i, 0
\* when there is none
MatchDirectQuarter(text, i) ==
    IF /\ i + 1 <= Len(text)
       /\ BoundaryBefore(text, i)
       /\ LowerChar(text[i]) = "q"
       /\ text[i + 1] \in {"1", "2", "3", "4"}
       /\ BoundaryBefore(text, i + 2)
    THEN 2 ELSE 0

OrdinalWords == <<<<"f", "i", "r", "s", "t">>, <<"s", "e", "c", "o", "n", "d">>, <<"t", "h", "i", "r", "d">>, <<"f", "o", "u", "r", "t", "h">>>>
QuarterWord == <<" ", "q", "u", "a", "r", "t", "e", "r">>

\* the alternative k of (?:first|second|third|fourth) quarter\b fits at i
OrdinalFits(text, i, k) ==
    /\ OccursAtIgnoreCase(text, i, OrdinalWords[k] \o QuarterWord)
    /\ BoundaryBefore(text, i + Len(OrdinalWords[k] \o QuarterWord))

\* the length of the match of \b(?:first|second|third|fourth) quarter\b
\* (IGNORECASE) that starts at i, 0 when there is none
MatchOrdinalQuarter(text, i) ==
    IF BoundaryBefore(text, i) /\ \E k \in 1..Len(OrdinalWords) : OrdinalFits(text, i, k)
    THEN Len(OrdinalWords[CHOOSE k \in 1..Len(OrdinalWords) : OrdinalFits(text, i, k)]
             \o QuarterWord)
    ELSE 0

\* the length of the match of \b(202[0-9])\b that starts at i, 0 when there
\* is none
MatchYear(text, i) ==
    IF /\ i + 3 <= Len(text)
       /\ BoundaryBefore(text, i)
       /\ text[i] = "2" /\ text[i + 1] = "0" /\ text[i + 2] = "2"
       /\ text[i + 3] \in Digits
       /\ BoundaryBefore(text, i + 4)
    THEN 4 ELSE 0

PluralHeads == <<<<"a", "l", "l">>, <<"t", "h", "r", "e", "e">>, <<"b", "o", "t", "h">>>>
BankWord == <<"b", "a", "n", "k">>

RECURSIVE SpacesFrom(_, _)
\* the number of whitespace characters from position i on
SpacesFrom(text, i) ==
    IF i <= Len(text) /\ IsSpace(text[i]) THEN 1 + SpacesFrom(text, i + 1) ELSE 0

\* (banks?)\b at position b, after n matched characters: the length of the
\* whole match, 0 when there is none; "banks" is tried before "bank"
MatchBankTail(text, b, n) ==
    IF ~OccursAtIgnoreCase(text, b, BankWord) THEN 0
    ELSE IF /\ b + 4 <= Len(text)
            /\ LowerChar(text[b + 4]) = "s"
            /\ BoundaryBefore(text, b + 5)
         THEN n + 5
         ELSE IF BoundaryBefore(text, b + 4) THEN n + 4 ELSE 0

\* \s+(banks?)\b after a head of h characters at i and sp whitespace
MatchAfterSpaces(text, i, h, sp) ==
    IF sp = 0 THEN 0 ELSE MatchBankTail(text, i + h + sp, h + sp)

\* the length of the match of \b(all|three|both)\s+(banks?)\b (IGNORECASE)
\* that starts at i, 0 when there is none
MatchPluralBanks(text, i) ==
    IF /\ BoundaryBefore(text, i)
       /\ \E k \in 1..Len(PluralHeads) : OccursAtIgnoreCase(text, i, PluralHeads[k])
    THEN \* the three heads start with different letters: one fits
         MatchAfterSpaces(text, i,
             Len(PluralHeads[CHOOSE k \in 1..Len(PluralHeads) :
                                OccursAtIgnoreCase(text, i, PluralHeads[k])]),
             SpacesFrom(text, i +
                 Len(PluralHeads[CHOOSE k \in 1..Len(PluralHeads) :
                                    OccursAtIgnoreCase(text, i, PluralHeads[k])])))
    ELSE 0

\* the length of the match of the named pattern that starts at i
MatchLen(pattern, text, i) ==
    CASE pattern = "direct_quarter"  -> MatchDirectQuarter(text, i)
      [] pattern = "ordinal_quarter" -> MatchOrdinalQuarter(text, i)
      [] pattern = "year"            -> MatchYear(text, i)
      [] pattern = "plural_banks"    -> MatchPluralBanks(text, i)

RECURSIVE FindAllFrom(_, _, _)
RECURSIVE FindAllAfter(_, _, _, _)
\* re.findall: the matches from position i on, from left to right without
\* overlap
FindAllFrom(pattern, text, i) ==
    IF i > Len(text) THEN <<>>
    ELSE FindAllAfter(pattern, text, i, MatchLen(pattern, text, i))

\* n is the length of the match at i, 0 when there is none
FindAllAfter(pattern, text, i, n) ==
    IF n > 0
    THEN <<SubSeq(text, i, i + n - 1)>> \o FindAllFrom(pattern, text, i + n)
    ELSE FindAllFrom(pattern, text, i + 1)

FindAll(pattern, text) == FindAllFrom(pattern, text, 1)

RECURSIVE SubAllFrom(_, _, _, _)
RECURSIVE SubAllAfter(_, _, _, _, _)
\* re.sub: every match replaced by new, from left to right without overlap
SubAllFrom(pattern, new, text, i) ==
    IF i > Len(text) THEN <<>>
    ELSE SubAllAfter(pattern, new, text, i, MatchLen(pattern, text, i))

\* n is the length of the match at i, 0 when there is none
SubAllAfter(pattern, new, text, i, n) ==
    IF n > 0
    THEN new \o SubAllFrom(pattern, new, text, i + n)
    ELSE <<text[i]>> \o SubAllFrom(pattern, new, text, i + 1)

ReSub(pattern, new, text) == SubAllFrom(pattern, new, text, 1)

RECURSIVE Flatten(_)
\* the concatenation of a sequence of sequences
Flatten(seqs) == IF seqs = <<>> THEN <<>> ELSE Head(seqs) \o Flatten(Tail(seqs))

(***************************************************************************)
(* Query decomposition, lines 71-152.                                      *)
(***************************************************************************)
\* Config.BANKS as character strings, in the order of the list
BankNames == <<<<"H", "a", "l", "y", "k", " ", "B", "a", "n", "k">>, <<"K", "a", "s", "p", "i", " ", "B", "a", "n", "k">>, <<"F", "o", "r", "t", "e", "B", "a", "n", "k">>>>

ComparisonKeywords == {<<"c", "o", "m", "p", "a", "r", "e">>, <<"c", "o", "m", "p", "a", "r", "i", "s", "o", "n">>, <<"v", "e", "r", "s", "u", "s">>, <<"v", "s">>, <<"b", "e", "t", "w", "e", "e", "n">>}

TrendKeywords == {<<"t", "r", "e", "n", "d">>, <<"c", "h", "a", "n", "g", "e">>, <<"e", "v", "o", "l", "v", "e">>, <<"g", "r", "o", "w", "t", "h">>, <<"o", "v", "e", "r", " ", "t", "i", "m", "e">>}

\* lines 105-109: the banks whose lower-cased name occurs in the lower-cased
\* query, in the order of Config.BANKS
ExtractBanks(query) ==
    Flatten([k \in 1..Len(BankNames) |->
                IF Contains(Lower(query), Lower(BankNames[k]))
                THEN <<BankNames[k]>> ELSE <<>>])

\* lines 115-122: what one regex match adds to metadata["quarters"]
QuartersOfMatch(match) ==
    IF Len(match) > 0 /\ Upper(match)[1] = "Q"
    THEN <<Upper(match)>>
    ELSE Flatten([k \in 1..Len(OrdinalWords) |->
                    IF Contains(Lower(match), OrdinalWords[k])
                    THEN <<<<"Q", <<"1", "2", "3", "4">>[k]>>>> ELSE <<>>])

\* lines 114-122: the loop over the matches
QuartersOfMatches(matches) ==
    Flatten([k \in 1..Len(matches) |-> QuartersOfMatch(matches[k])])

\* lines 112-122: the matches of the first pattern, then those of the second
ExtractQuarters(query) ==
    QuartersOfMatches(FindAll("direct_quarter", query)
                        \o FindAll("ordinal_quarter", query))

\* lines 125-126 (a year is kept as its four digits)
ExtractYears(query) == FindAll("year", query)

\* _extract_metadata, lines 97-128
extract_metadata(query) ==
    [ banks |-> ExtractBanks(query),
      quarters |-> ExtractQuarters(query),
      years |-> ExtractYears(query) ]

\* lines 138-139: the sub-query for one bank
ComparisonSubQuery(query, bank) ==
    ReSub("plural_banks", bank,
          Replace(query, <<"c", "o", "m", "p", "a", "r", "e">>, <<"W", "h", "a", "t", " ", "i", "s", " ">> \o bank \o <<"'", "s">>))

\* variant: decomposition only from three banks on
decompose_comparison_from_three(query, metadata) ==
    IF Len(metadata.banks) > 2
    THEN [k \in 1..Len(metadata.banks) |-> ComparisonSubQuery(query, metadata.banks[k])]
    ELSE <<query>>

\* line 143
SubQueriesOrQuery(subs, query) == IF Len(subs) > 1 THEN subs ELSE <<query>>

\* _decompose_comparison, lines 130-143
decompose_comparison(query, metadata) ==
    IF Len(metadata.banks) >= 2
    THEN SubQueriesOrQuery(
             [k \in 1..Len(metadata.banks) |->
                 ComparisonSubQuery(query, metadata.banks[k])],
             query)
    ELSE <<query>>

\* _decompose_trend, lines 145-152
decompose_trend(query, metadata) == <<query>>

ContainsAny(text, keywords) == \E kw \in keywords : Contains(text, kw)

\* variant: a query that names two banks or more counts as a comparison
IsComparisonByBanks(query) == Len(ExtractBanks(query)) >= 2

\* line 83
IsComparison(query) == ContainsAny(Lower(query), ComparisonKeywords)

\* line 88
IsTrend(query) == ContainsAny(Lower(query), TrendKeywords)

\* the empty dict {}
EmptyDict == [f \in {} |-> f]

\* variant: the trend keywords are looked for first
SubQueriesForTrendFirst(query, metadata) ==
    IF IsTrend(query) THEN decompose_trend(query, metadata)
    ELSE IF IsComparison(query) THEN decompose_comparison(query, metadata)
    ELSE <<query>>

\* lines 82-95: the query type decides the sub-queries
SubQueriesFor(query, metadata) ==
    IF IsComparison(query) THEN decompose_comparison(query, metadata)
    ELSE IF IsTrend(query) THEN decompose_trend(query, metadata)
    ELSE <<query>>

\* lines 79-95 with the extracted metadata
DecomposedWith(query, metadata) ==
    [sub_queries |-> SubQueriesFor(query, metadata), metadata |-> metadata]

\* variant: the metadata are extracted at every level
decompose_query_with_metadata(query, level) ==
    IF level < 3 THEN [sub_queries |-> <<query>>, metadata |-> extract_metadata(query)]
    ELSE DecomposedWith(query, extract_metadata(query))

\* decompose_query, lines 71-95: the pair (sub_queries, metadata)
decompose_query(query, level) ==
    IF level < 3 THEN [sub_queries |-> <<query>>, metadata |-> EmptyDict]
    ELSE DecomposedWith(query, extract_metadata(query))

(***************************************************************************)
(* Context compression, lines 393-446.  The generation call made for one   *)
(* document either raises or answers with a text.                          *)
(***************************************************************************)
RECURSIVE LStrip(_)
LStrip(text) ==
    IF text # <<>> /\ IsSpace(Head(text)) THEN LStrip(Tail(text)) ELSE text

RECURSIVE RStrip(_)
RStrip(text) ==
    IF text # <<>> /\ IsSpace(text[Len(text)])
    THEN RStrip(SubSeq(text, 1, Len(text) - 1)) ELSE text

\* str.strip()
Strip(text) == RStrip(LStrip(text))

NoRelevantInfo == <<"N", "O", "_", "R", "E", "L", "E", "V", "A", "N", "T", "_", "I", "N", "F", "O">>

\* line 430: the answer is used
IsUsable(compressed_content) ==
    compressed_content # NoRelevantInfo /\ Len(compressed_content) > 20

\* variant: a document whose answer is not usable is left out
CompressedEntryOrNothing(doc, call) ==
    IF call.raises THEN <<Put(doc, "compressed", FALSE)>>
    ELSE LET compressed_content == Strip(call.text)
         IN  IF IsUsable(compressed_content)
             THEN <<Put(Put(Put(doc, "original_content", doc["content"]),
                            "content", compressed_content),
                        "compressed", TRUE)>>
             ELSE <<>>

\* variant: every answer of a call that did not raise replaces the content
CompressedEntryAnyAnswer(doc, call) ==
    IF call.raises THEN <<Put(doc, "compressed", FALSE)>>
    ELSE <<Put(Put(Put(doc, "original_content", doc["content"]),
                   "content", Strip(call.text)),
               "compressed", TRUE)>>

\* lines 404-444: what one pass of the loop appends to compressed_docs
CompressedEntry(doc, call) ==
    IF call.raises THEN <<Put(doc, "compressed", FALSE)>>
    ELSE LET compressed_content == Strip(call.text)
         IN  IF IsUsable(compressed_content)
             THEN <<Put(Put(Put(doc, "original_content", doc["content"]),
                            "content", compressed_content),
                        "compressed", TRUE)>>
             ELSE <<Put(doc, "compressed", FALSE)>>

\* compress_context: calls[i] is the outcome of the generation call for
\* documents[i]
compress_context(docs, calls, level) ==
    IF level < 4 \/ docs = <<>> THEN docs
    ELSE Flatten([i \in 1..Len(docs) |-> CompressedEntry(docs[i], calls[i])])

\* the outcomes of a generation call
GenerationCalls ==
    { [raises |-> TRUE, text |-> <<>>] } \cup
    { [raises |-> FALSE, text |-> t] : t \in { <<"N", "e", "t", " ", "p", "r", "o", "f", "i", "t", ":", " ", "1", "2", "0", " ", "b", "n", " ", "K", "Z", "T">>,
        <<"n", "/", "a">>,
        <<"N", "O", "_", "R", "E", "L", "E", "V", "A", "N", "T", "_", "I", "N", "F", "O">>,
        <<" ", "N", "O", "_", "R", "E", "L", "E", "V", "A", "N", "T", "_", "I", "N", "F", "O", " ">> } }

(***************************************************************************)
(* Re-ranking, lines 362-387.  scoring is the outcome of the cross-encoder *)
(* call: it raises, or it gives one score per pair.                        *)
(***************************************************************************)
RECURSIVE InsertByRerankScore(_, _)
InsertByRerankScore(sorted, doc) ==
    IF sorted = <<>> THEN <<doc>>
    ELSE IF RLeq(doc["rerank_score"], Head(sorted)["rerank_score"])
         THEN <<Head(sorted)>> \o InsertByRerankScore(Tail(sorted), doc)
         ELSE <<doc>> \o sorted

RECURSIVE SortByRerankScore(_)
\* sorted(documents, key=rerank_score, reverse=True), a stable sort
SortByRerankScore(list) ==
    IF list = <<>> THEN <<>>
    ELSE InsertByRerankScore(SortByRerankScore(SubSeq(list, 1, Len(list) - 1)),
                             list[Len(list)])

\* the score a cross-encoder gives to the pair (query, content): either the
\* length of the content it is given or the same score for every pair
\* line 371: the characters of the content handed to the cross-encoder
ContentLimit == 512

PairScore(outcome, content) ==
    IF outcome = "by_length" THEN <<Len(Take(content, ContentLimit)), 1>> ELSE RZero

\* variant: the scores are written but the candidates are not sorted
rerank_documents_unsorted(docs, k, level, encoder, outcome) ==
    IF level < 2 \/ encoder = None \/ docs = <<>> THEN Take(docs, k)
    ELSE IF outcome = "raises" THEN Take(docs, k)
    ELSE Take([i \in 1..Len(docs) |->
                  Put(docs[i], "rerank_score", PairScore(outcome, docs[i]["content"]))],
              k)

\* variant: the candidates are passed through without the cut to top_k
rerank_documents_uncut(docs, k, level, encoder, outcome) ==
    IF level < 2 \/ encoder = None \/ docs = <<>> THEN docs
    ELSE IF outcome = "raises" THEN docs
    ELSE Take(SortByRerankScore(
                [i \in 1..Len(docs) |->
                    Put(docs[i], "rerank_score", PairScore(outcome, docs[i]["content"]))]),
              k)

\* lines 362-387
rerank_documents(docs, k, level, encoder, outcome) ==
    IF level < 2 \/ encoder = None \/ docs = <<>> THEN Take(docs, k)
    ELSE IF outcome = "raises" THEN Take(docs, k)
    ELSE Take(SortByRerankScore(
                [i \in 1..Len(docs) |->
                    Put(docs[i], "rerank_score", PairScore(outcome, docs[i]["content"]))]),
              k)

(***************************************************************************)
(* The external index as query() sees it: it holds some of the objects of  *)
(* Collection (one per identity key, as ingestion writes them) and ranks   *)
(* them for each search.                                                   *)
(***************************************************************************)
Collection ==
    << [bank_name |-> Banks[1], quarter |-> "Q4", year |-> "2024",
        report_type |-> "financial_statement"],
       [bank_name |-> Banks[1], quarter |-> "Q3", year |-> "2024",
        report_type |-> "financial_statement"],
       [bank_name |-> Banks[2], quarter |-> "Q4", year |-> "2024",
        report_type |-> "financial_statement"],
       [bank_name |-> Banks[2], quarter |-> "Q3", year |-> "2024",
        report_type |-> "financial_statement"],
       [bank_name |-> Banks[3], quarter |-> "Q4", year |-> "2024",
        report_type |-> "financial_statement"] >>

\* a bank name of Config.BANKS as characters
BankChars(b) == BankNames[CHOOSE k \in 1..Len(Banks) : Banks[k] = b]

\* a quarter label or a year of the metadata as the string the index stores
AsString(chars) ==
    CASE chars = <<"Q", "1">> -> "Q1" [] chars = <<"Q", "2">> -> "Q2"
      [] chars = <<"Q", "3">> -> "Q3" [] chars = <<"Q", "4">> -> "Q4"
      [] chars = <<"2", "0", "2", "4">> -> "2024"
      [] OTHER -> "other"

\* the filter argument of a search when it is None
NoWhere == [ passed |-> FALSE ]

\* _build_where_filter, lines 243-287: None, or per field the values that
\* are ORed (an empty field is not constrained); the fields are ANDed
build_where_filter(md) ==
    IF md.banks = <<>> /\ md.quarters = <<>> /\ md.years = <<>> THEN NoWhere
    ELSE [ passed |-> TRUE,
           bank_name |-> { m : m \in Range(md.banks) },
           quarter |-> { AsString(q) : q \in Range(md.quarters) },
           year |-> { AsString(y) : y \in Range(md.years) } ]

\* lines 199-202: the filter of a vector search ({} and None are falsy)
WhereFilter(md, level) ==
    IF md # EmptyDict /\ level >= 3 THEN build_where_filter(md) ELSE NoWhere

\* the index's evaluation of a filter on one object
Matches(props, where) ==
    ~where.passed \/
    /\ (where.bank_name = {} \/ BankChars(props.bank_name) \in where.bank_name)
    /\ (where.quarter = {} \/ props.quarter \in where.quarter)
    /\ (where.year = {} \/ props.year \in where.year)

\* the position of the first occurrence of str in text, 0 when there is none
FirstOccurrence(text, str) ==
    IF Contains(text, str)
    THEN CHOOSE i \in 1..Len(text) :
            OccursAt(text, i, str) /\ \A j \in 1..(i - 1) : ~OccursAt(text, j, str)
    ELSE 0

\* the bank k is named in the text, and no other bank before it
IsFirstNamed(text, k) ==
    /\ Contains(text, BankNames[k])
    /\ \A j \in 1..Len(BankNames) :
          Contains(text, BankNames[j]) =>
              FirstOccurrence(text, BankNames[k]) <= FirstOccurrence(text, BankNames[j])

\* the bank the text names first, None when it names none
FirstNamedBank(text) ==
    IF \E k \in 1..Len(BankNames) : IsFirstNamed(text, k)
    THEN Banks[CHOOSE k \in 1..Len(BankNames) : IsFirstNamed(text, k)]
    ELSE None

\* the objects of the list of the bank b first, then the others
BankFirst(list, b) ==
    SelectSeq(list, LAMBDA c : c.bank_name = b)
        \o SelectSeq(list, LAMBDA c : c.bank_name # b)

\* the i-th nearest object is at distance (i-1)/Len(Collection)
WithDistances(ranked) ==
    [i \in 1..Len(ranked) |->
        [props |-> ranked[i], distance |-> Rat(i - 1, Len(Collection))]]

\* the indexed objects that pass the filter, nearest first: the reports of
\* the bank the text names first, then the others
DenseRanking(text, where, objects) ==
    WithDistances(
        BankFirst(SelectSeq(Collection, LAMBDA c : c \in objects /\ Matches(c, where)),
                  FirstNamedBank(text)))

\* the objects of the list of the quarter q first, then the others
QuarterFirst(list, q) ==
    SelectSeq(list, LAMBDA c : c.quarter = q)
        \o SelectSeq(list, LAMBDA c : c.quarter # q)

\* the i-th object from the end of the ranking has the BM25 score i
WithScores(ranked) ==
    [i \in 1..Len(ranked) |->
        [props |-> ranked[i], score |-> <<Len(ranked) + 1 - i, 1>>]]

\* the indexed objects by BM25 score: the Q4 reports, last bank first, then
\* the Q3 reports
SparseRanking(text, objects) ==
    WithScores(
        QuarterFirst(
            SelectSeq([i \in 1..Len(Collection) |-> Collection[Len(Collection) + 1 - i]],
                      LAMBDA c : c \in objects),
            "Q4"))

(***************************************************************************)
(* The calls made on the index.                                            *)
(***************************************************************************)
\* lines 199-219: the near_vector call of vector_search
near_vector_call(text, limit, md, level) ==
    [ search |-> "near_vector", text |-> text, limit |-> limit,
      filters |-> WhereFilter(md, level) ]

\* lines 167-171: the bm25 call of bm25_search
bm25_call(text, limit) == [ search |-> "bm25", query |-> text, limit |-> limit ]

\* variant: the metadata filter is not handed on to the dense search
hybrid_search_calls_unfiltered(text, k, md, level) ==
    IF level < 1 THEN << near_vector_call(text, k, EmptyDict, level) >>
    ELSE << near_vector_call(text, k * 2, EmptyDict, level), bm25_call(text, k * 2) >>

\* lines 297-303: the calls hybrid_search makes on the index
hybrid_search_calls(text, k, md, level) ==
    IF level < 1 THEN << near_vector_call(text, k, md, level) >>
    ELSE << near_vector_call(text, k * 2, md, level), bm25_call(text, k * 2) >>

\* lines 559-563: the calls made for one sub-query
SearchesFor(text, k, md, level) ==
    IF level >= 1 THEN hybrid_search_calls(text, k * 2, md, level)
    ELSE << near_vector_call(text, k * 2, md, level) >>

\* the index's answer to a call it was sent
AnswerTo(call, objects) ==
    IF call.search = "near_vector"
    THEN DenseRanking(call.text, call.filters, objects)
    ELSE SparseRanking(call.query, objects)

(***************************************************************************)
(* query(), lines 535-605, stage by stage.                                 *)
(***************************************************************************)
\* variant: the last candidate of each identity key is kept
DeduplicatedKeepingLast(list) ==
    Flatten([i \in 1..Len(list) |->
                IF \A j \in (i + 1)..Len(list) :
                      IdentityKey(list[j]) # IdentityKey(list[i])
                THEN <<list[i]>> ELSE <<>>])

RECURSIVE DedupFrom(_, _)
\* lines 566-577: the first candidate of each identity key, in order
DedupFrom(list, seen) ==
    IF list = <<>> THEN <<>>
    ELSE LET key == IdentityKey(Head(list))
         IN  IF key \notin seen
             THEN <<Head(list)>> \o DedupFrom(Tail(list), seen \cup {key})
             ELSE DedupFrom(Tail(list), seen)

Deduplicated(list) == DedupFrom(list, {})

\* variant: four times top_k asked of each search
RetrievedForWider(dense, sparse, k, level) ==
    IF level >= 1
    THEN hybrid_search(dense, sparse, k * 4, <<1, 2>>, level).results
    ELSE vector_search(dense, k * 4)

\* lines 557-563: the documents retrieved for one sub-query
RetrievedFor(dense, sparse, k, level) ==
    IF level >= 1
    THEN hybrid_search(dense, sparse, k * 2, <<1, 2>>, level).results
    ELSE vector_search(dense, k * 2)

(***************************************************************************)
(* State.                                                                  *)
(***************************************************************************)
VARIABLES
    pc,              \* the operation in progress and its stage
    iteration,       \* self.iteration, the feature level of the pipeline
    top_k,           \* the top_k argument of the call
    alpha,           \* the alpha argument of hybrid_search
    dense_answer,    \* the index's ranked answer to the nearest-neighbour search
    sparse_answer,   \* the index's ranked answer to the BM25 search
    vector_results,  \* hybrid_search: vector_results (after normalization)
    bm25_results,    \* hybrid_search: bm25_results (after normalization)
    merged,          \* hybrid_search: the dict merged
    results,         \* hybrid_search: the returned list
    path,            \* hybrid_search: the return statement taken
    query,           \* decompose_query: the query argument
    sub_queries,     \* decompose_query: the returned list of sub-queries
    metadata,        \* decompose_query: the returned metadata dict
    documents,       \* compress_context: the documents argument
    calls,           \* compress_context: the outcome of each generation call
    compressed_docs, \* compress_context: the returned list
    user_query,      \* query(): the user_query argument
    expand,          \* query(): the expand_query argument
    cross_encoder,   \* self.cross_encoder: "loaded", or None
    indexed,         \* the objects the external index holds
    expanded_query,  \* query(): expanded_query
    search_query,    \* query(): search_query
    next_sub,        \* query(): the position of the loop over sub_queries
    all_documents,   \* query(): all_documents
    unique_docs,     \* query(): unique_docs
    reranked_docs,   \* query(): reranked_docs
    final_docs,      \* query(): final_docs
    result,          \* query(): result
    scoring,         \* rerank_documents: the outcome of the cross-encoder call
    encode_raises,   \* vector_search: the embedding call raises
    search_raises,   \* vector_search: the nearest-neighbour call raises
    generation,      \* generate_answer: the outcome of the generation call
    issued,          \* query(): the search calls made on the index so far
    embedding_model, \* self.embedding_model
    collection,      \* self.collection, the connection to the index
    calls_done,      \* the number of query() calls that ended on this pipeline
    cls_instance,    \* EmbeddingModel._instance: None, or the object it refers to
    instance_model,  \* _model as read through that object: None, or the loaded model
    allocated,       \* the number of EmbeddingModel objects allocated so far
    pipelines        \* the pipelines built so far in the process

fusionVars == << top_k, alpha, dense_answer, sparse_answer,
                 vector_results, bm25_results, merged, results, path >>

decomposeVars == << query, sub_queries, metadata >>

compressVars == << documents, calls, compressed_docs >>

queryVars == << user_query, expand, cross_encoder, indexed, expanded_query, search_query,
               next_sub, all_documents, unique_docs, reranked_docs, final_docs,
               result >>

callVars == << scoring, encode_raises, search_raises, generation, issued >>

embeddingVars == << cls_instance, instance_model, allocated, pipelines >>

pipelineVars == << embedding_model, collection, calls_done, embeddingVars >>

vars == << pc, iteration, fusionVars, decomposeVars, compressVars, queryVars,
          callVars, pipelineVars >>

\* lines 33-53: the handles after __init__ has returned; connect() raises
\* when the connection fails, so that a constructed pipeline is connected
Constructed ==
    /\ embedding_model = "EmbeddingModel"
    /\ collection = "connected"
    /\ calls_done = 0
    /\ cls_instance = None
    /\ instance_model = None
    /\ allocated = 0
    /\ pipelines = <<>>

\* the alpha arguments tried (the default is 0.5)
Alphas == {<<0, 1>>, <<1, 2>>, <<1, 1>>}

\* no hybrid_search call in this run
FusionIdle ==
    /\ top_k = 1
    /\ alpha = <<1, 2>>
    /\ dense_answer = <<>>
    /\ sparse_answer = <<>>
    /\ vector_results = <<>>
    /\ bm25_results = <<>>
    /\ merged = <<>>
    /\ results = <<>>
    /\ path = "none"

\* no decompose_query call in this run
DecomposeIdle ==
    /\ query = <<>>
    /\ sub_queries = <<>>
    /\ metadata = EmptyDict

\* no compress_context call in this run
CompressIdle ==
    /\ documents = <<>>
    /\ calls = <<>>
    /\ compressed_docs = <<>>

\* no query() call in this run
QueryIdle ==
    /\ user_query = <<>>
    /\ expand = FALSE
    /\ cross_encoder = None
    /\ indexed = {}
    /\ expanded_query = <<>>
    /\ search_query = <<>>
    /\ next_sub = 0
    /\ all_documents = <<>>
    /\ unique_docs = <<>>
    /\ reranked_docs = <<>>
    /\ final_docs = <<>>
    /\ result = EmptyDict

\* no generation call made
NoCall == [raises |-> FALSE, text |-> <<>>]

\* no single call of rerank_documents or vector_search in this run
CallIdle ==
    /\ scoring = "none"
    /\ encode_raises = FALSE
    /\ search_raises = FALSE
    /\ generation = NoCall
    /\ issued = <<>>

(***************************************************************************)
(* Fusion: one call of hybrid_search on a pipeline of feature level 0 or   *)
(* more, for every answer of the index.                                    *)
(***************************************************************************)
FusionInit ==
    /\ pc = "hybrid_search"
    /\ iteration \in {0, 1}
    /\ top_k \in 1..MaxTopK
    /\ alpha \in Alphas
    /\ dense_answer \in DenseAnswers(MaxRes)
    /\ sparse_answer \in SparseAnswers(MaxRes)
    \* below level 1 no BM25 search is issued
    /\ iteration < 1 => sparse_answer = <<>>
    /\ vector_results = <<>>
    /\ bm25_results = <<>>
    /\ merged = <<>>
    /\ results = <<>>
    /\ path = "none"
    /\ DecomposeIdle
    /\ CompressIdle
    /\ QueryIdle
    /\ CallIdle
    /\ Constructed

HybridSearch ==
    /\ pc = "hybrid_search"
    /\ LET r == hybrid_search(dense_answer, sparse_answer, top_k, alpha, iteration)
       IN  /\ vector_results' = r.vector_results
           /\ bm25_results' = r.bm25_results
           /\ merged' = r.merged
           /\ results' = r.results
           /\ path' = r.path
    /\ pc' = "returned"
    /\ UNCHANGED << pipelineVars, callVars, iteration, top_k, alpha, dense_answer, sparse_answer,
                    decomposeVars, compressVars, queryVars >>

FusionNext == HybridSearch

SpecFusion == FusionInit /\ [][FusionNext]_vars

(***************************************************************************)
(* Records that lack fields: one call of hybrid_search on answers of an    *)
(* index some of whose objects have a property missing or null, followed   *)
(* by the deduplication query() makes of what two sub-queries retrieved.   *)
(***************************************************************************)
\* the properties of the objects: one without bank_name, one with every
\* field null, one complete
MalformedKeys ==
    { [quarter |-> "Q4", year |-> "2024", report_type |-> "financial_statement"],
      [bank_name |-> None, quarter |-> None, year |-> None, report_type |-> None],
      [bank_name |-> Banks[1], quarter |-> "Q4", year |-> "2024",
       report_type |-> "financial_statement"] }

MalformedDenseAnswers(n) ==
    { s \in SeqsUpTo({ [props |-> k, distance |-> d] :
                          k \in MalformedKeys, d \in {<<0, 1>>, <<1, 2>>} }, n) :
        \A i \in 1..(Len(s) - 1) : RLeq(s[i].distance, s[i + 1].distance) }

MalformedSparseAnswers(n) ==
    { s \in SeqsUpTo({ [props |-> k, score |-> x] :
                          k \in MalformedKeys, x \in {<<1, 1>>, <<2, 1>>} }, n) :
        \A i \in 1..(Len(s) - 1) : RLeq(s[i + 1].score, s[i].score) }

MalformedInit ==
    /\ pc = "hybrid_search"
    /\ iteration = 1
    /\ top_k \in 1..MaxTopK
    /\ alpha = <<1, 2>>
    /\ dense_answer \in MalformedDenseAnswers(MaxRes)
    /\ sparse_answer \in MalformedSparseAnswers(MaxRes)
    /\ vector_results = <<>>
    /\ bm25_results = <<>>
    /\ merged = <<>>
    /\ results = <<>>
    /\ path = "none"
    /\ DecomposeIdle
    /\ CompressIdle
    /\ QueryIdle
    /\ CallIdle
    /\ Constructed

\* lines 557-577 for two sub-queries: the list returned for the first, then
\* the list returned for the second, whose BM25 search gave nothing
DeduplicateRetrieved ==
    /\ pc = "returned"
    /\ all_documents' =
          results \o hybrid_search(dense_answer, <<>>, top_k, alpha, iteration).results
    /\ unique_docs' = Deduplicated(all_documents')
    /\ pc' = "deduplicated"
    /\ UNCHANGED << pipelineVars, callVars, iteration, fusionVars, decomposeVars, compressVars,
                    user_query, expand, cross_encoder, indexed, expanded_query,
                    search_query, next_sub, reranked_docs, final_docs, result >>

MalformedNext == HybridSearch \/ DeduplicateRetrieved

SpecMalformed == MalformedInit /\ [][MalformedNext]_vars

(***************************************************************************)
(* Decomposition: one call of decompose_query, for every query made of at  *)
(* most MaxWords phrases of the vocabulary, at every feature level.        *)
(***************************************************************************)
Vocabulary ==
    { <<"c", "o", "m", "p", "a", "r", "e">>,
      <<"C", "o", "m", "p", "a", "r", "e">>,
      <<"g", "r", "o", "w", "t", "h">>,
      <<"c", "o", "m", "p", "a", "r", "e", " ", "g", "r", "o", "w", "t", "h", " ", "o", "f">>,
      <<"H", "a", "l", "y", "k", " ", "B", "a", "n", "k">>,
      <<"K", "a", "s", "p", "i", " ", "B", "a", "n", "k">>,
      <<"F", "o", "r", "t", "e", "B", "a", "n", "k">>,
      <<"b", "o", "t", "h", " ", "b", "a", "n", "k", "s">>,
      <<"Q", "4", " ", "2", "0", "2", "4">> }

RECURSIVE Join(_)
\* " ".join(words)
Join(words) ==
    IF words = <<>> THEN <<>>
    ELSE IF Len(words) = 1 THEN words[1]
    ELSE words[1] \o <<" ">> \o Join(Tail(words))

Queries == { Join(w) : w \in SeqsUpTo(Vocabulary, MaxWords) }

Levels == 1..4

DecomposeInit ==
    /\ pc = "decompose_query"
    /\ iteration \in Levels
    /\ query \in Queries
    /\ sub_queries = <<>>
    /\ metadata = EmptyDict
    /\ FusionIdle
    /\ CompressIdle
    /\ QueryIdle
    /\ CallIdle
    /\ Constructed

DecomposeQuery ==
    /\ pc = "decompose_query"
    /\ \E r \in {decompose_query(query, iteration)} :
          /\ sub_queries' = r.sub_queries
          /\ metadata' = r.metadata
    /\ pc' = "returned"
    /\ UNCHANGED << pipelineVars, callVars, iteration, query, fusionVars, compressVars, queryVars >>

DecomposeNext == DecomposeQuery

SpecDecompose == DecomposeInit /\ [][DecomposeNext]_vars

(***************************************************************************)
(* Compression: one call of compress_context on up to MaxDocs retrieved    *)
(* documents, for every outcome of the generation calls.                   *)
(***************************************************************************)
\* the documents a retrieval can hand on
RetrievedDocs ==
    { VectorDoc(o) : o \in { d \in DenseObjects : d.distance = RZero } }

CompressInit ==
    /\ pc = "compress_context"
    /\ iteration \in {3, 4}
    /\ documents \in SeqsUpTo(RetrievedDocs, MaxDocs)
    /\ calls \in [1..Len(documents) -> GenerationCalls]
    /\ compressed_docs = <<>>
    /\ FusionIdle
    /\ DecomposeIdle
    /\ QueryIdle
    /\ CallIdle
    /\ Constructed

CompressContext ==
    /\ pc = "compress_context"
    /\ compressed_docs' = compress_context(documents, calls, iteration)
    /\ pc' = "returned"
    /\ UNCHANGED << pipelineVars, callVars, iteration, documents, calls, fusionVars, decomposeVars, queryVars >>

CompressNext == CompressContext

SpecCompress == CompressInit /\ [][CompressNext]_vars

(***************************************************************************)
(* Re-ranking: one call of rerank_documents on up to MaxDocs candidates,   *)
(* at every feature level, with and without a loaded cross-encoder.        *)
(***************************************************************************)
\* a candidate whose content has n characters more than ContentLimit
LongDoc(n) ==
    [ bank_name |-> Banks[3], quarter |-> "Q" \o ToString(n), year |-> "2024",
      report_type |-> "annual_report",
      content |-> [i \in 1..(ContentLimit + n) |-> "x"],
      source |-> "bm25", score |-> ROne ]

\* the candidates handed to rerank_documents: one per object of the
\* collection, and two with a long content
RerankDocs ==
    { VectorDoc([props |-> Collection[i], distance |-> RZero]) :
        i \in 1..Len(Collection) }
    \cup { LongDoc(1), LongDoc(2) }

Scorings == {"by_length", "constant", "raises"}

RerankInit ==
    /\ pc = "rerank_documents"
    /\ iteration \in Levels
    /\ top_k \in 1..MaxTopK
    /\ cross_encoder \in IF iteration >= 2 THEN {"loaded", None} ELSE {None}
    /\ scoring \in Scorings
    /\ documents \in SeqsUpTo(RerankDocs, MaxDocs)
    /\ reranked_docs = <<>>
    /\ encode_raises = FALSE
    /\ search_raises = FALSE
    /\ generation = NoCall
    /\ issued = <<>>
    /\ Constructed
    /\ alpha = <<1, 2>>
    /\ dense_answer = <<>>
    /\ sparse_answer = <<>>
    /\ vector_results = <<>>
    /\ bm25_results = <<>>
    /\ merged = <<>>
    /\ results = <<>>
    /\ path = "none"
    /\ DecomposeIdle
    /\ calls = <<>>
    /\ compressed_docs = <<>>
    /\ user_query = <<>>
    /\ expand = FALSE
    /\ indexed = {}
    /\ expanded_query = <<>>
    /\ search_query = <<>>
    /\ next_sub = 0
    /\ all_documents = <<>>
    /\ unique_docs = <<>>
    /\ final_docs = <<>>
    /\ result = EmptyDict

\* lines 362-387
RerankDocuments ==
    /\ pc = "rerank_documents"
    /\ reranked_docs' =
          rerank_documents(documents, top_k, iteration, cross_encoder, scoring)
    /\ pc' = "returned"
    /\ UNCHANGED << pipelineVars, callVars, iteration, fusionVars, decomposeVars, compressVars,
                    user_query, expand, cross_encoder, indexed, expanded_query,
                    search_query, next_sub, all_documents, unique_docs, final_docs,
                    result >>

RerankNext == RerankDocuments

SpecRerank == RerankInit /\ [][RerankNext]_vars

(***************************************************************************)
(* Dense retrieval: one call of vector_search, for every answer of the     *)
(* index and every failure of the two external calls.                      *)
(***************************************************************************)
VectorInit ==
    /\ pc = "vector_search"
    /\ iteration \in Levels
    /\ top_k \in 1..MaxTopK
    /\ dense_answer \in DenseAnswers(MaxRes)
    /\ encode_raises \in BOOLEAN
    /\ search_raises \in BOOLEAN
    /\ scoring = "none"
    /\ generation = NoCall
    /\ issued = <<>>
    /\ Constructed
    /\ alpha = <<1, 2>>
    /\ sparse_answer = <<>>
    /\ vector_results = <<>>
    /\ bm25_results = <<>>
    /\ merged = <<>>
    /\ results = <<>>
    /\ path = "none"
    /\ DecomposeIdle
    /\ CompressIdle
    /\ QueryIdle

\* lines 193-241: the embedding call of line 197 is made before the try
\* block is entered, the nearest-neighbour call inside it
VectorSearch ==
    /\ pc = "vector_search"
    /\ IF encode_raises
       THEN /\ pc' = "raised"
            /\ UNCHANGED vector_results
       ELSE /\ vector_results' =
                  IF search_raises THEN <<>> ELSE vector_search(dense_answer, top_k)
            /\ pc' = "returned"
    /\ UNCHANGED << pipelineVars, callVars, iteration, top_k, alpha, dense_answer, sparse_answer,
                    bm25_results, merged, results, path,
                    decomposeVars, compressVars, queryVars >>

VectorNext == VectorSearch

SpecVector == VectorInit /\ [][VectorNext]_vars

(***************************************************************************)
(* The pipeline: one call of query(user_query, expand_query, top_k) on a   *)
(* pipeline of feature level 1 to 4, stage by stage.                       *)
(***************************************************************************)
SimpleQuery == <<"K", "a", "s", "p", "i", " ", "B", "a", "n", "k", " ", "Q", "4", " ", "2", "0", "2", "4">>

ComparisonQuery == <<"c", "o", "m", "p", "a", "r", "e", " ", "H", "a", "l", "y", "k", " ", "B", "a", "n", "k", " ", "K", "a", "s", "p", "i", " ", "B", "a", "n", "k">>

UserQueries == { SimpleQuery, ComparisonQuery }

\* what the generation model answers to the expansion prompt
ExpandedTexts == { ComparisonQuery \o <<" ">> }

\* the outcomes of the generation calls of compress_context tried here
PipelineCalls ==
    { c \in GenerationCalls : c.raises \/ (Len(c.text) > 3 /\ Head(c.text) # " ") }

QueryInit ==
    /\ pc = "query"
    /\ iteration \in Levels
    /\ top_k \in 1..MaxQueryTopK
    /\ user_query \in UserQueries
    /\ expand \in BOOLEAN
    \* lines 41-49: loaded from level 2 on, None when loading failed
    /\ cross_encoder \in IF iteration >= 2 THEN {"loaded", None} ELSE {None}
    /\ indexed \in SUBSET Range(Collection)
    /\ expanded_query = <<>>
    /\ search_query = <<>>
    /\ next_sub = 0
    /\ all_documents = <<>>
    /\ unique_docs = <<>>
    /\ reranked_docs = <<>>
    /\ final_docs = <<>>
    /\ result = EmptyDict
    /\ alpha = <<1, 2>>
    /\ dense_answer = <<>>
    /\ sparse_answer = <<>>
    /\ vector_results = <<>>
    /\ bm25_results = <<>>
    /\ merged = <<>>
    /\ results = <<>>
    /\ path = "none"
    /\ DecomposeIdle
    /\ CompressIdle
    /\ CallIdle
    /\ Constructed

\* lines 546-552 with expand_query, lines 452-472
Expand ==
    /\ pc = "query"
    /\ \E raises \in BOOLEAN, answer \in ExpandedTexts :
          \* raises: the generation call raised, the original query is kept
          expanded_query' =
              IF ~expand \/ raises THEN user_query ELSE Strip(answer)
    /\ search_query' = expanded_query'
    /\ pc' = "expanded"
    /\ UNCHANGED << pipelineVars, callVars, iteration, fusionVars, decomposeVars, compressVars,
                    user_query, expand, cross_encoder, indexed, next_sub, all_documents,
                    unique_docs, reranked_docs, final_docs, result >>

\* line 555
Decompose ==
    /\ pc = "expanded"
    /\ \E r \in {decompose_query(search_query, iteration)} :
          /\ sub_queries' = r.sub_queries
          /\ metadata' = r.metadata
    /\ next_sub' = 1
    /\ pc' = "retrieving"
    /\ UNCHANGED << pipelineVars, callVars, iteration, fusionVars, query, compressVars,
                    user_query, expand, cross_encoder, indexed, expanded_query, search_query,
                    all_documents, unique_docs, reranked_docs, final_docs, result >>

\* lines 559-564, one pass of the loop: each of the two searches is
\* answered, or fails inside its try block and gives []
Retrieve ==
    /\ pc = "retrieving"
    /\ next_sub <= Len(sub_queries)
    /\ \E dense_fails \in BOOLEAN, sparse_fails \in BOOLEAN,
          searches \in {SearchesFor(sub_queries[next_sub], top_k, metadata, iteration)} :
          /\ issued' = issued \o searches
          /\ all_documents' =
                all_documents \o
                RetrievedFor(
                    IF dense_fails THEN <<>> ELSE AnswerTo(searches[1], indexed),
                    IF sparse_fails \/ Len(searches) < 2 THEN <<>>
                    ELSE AnswerTo(searches[2], indexed),
                    top_k, iteration)
    /\ next_sub' = next_sub + 1
    /\ UNCHANGED << pipelineVars, scoring, encode_raises, search_raises, generation, pc, iteration, fusionVars, decomposeVars, compressVars,
                    user_query, expand, cross_encoder, indexed, expanded_query, search_query,
                    unique_docs, reranked_docs, final_docs, result >>

\* line 197: the embedding call of vector_search is outside its try block;
\* when it raises, the exception leaves query()
EmbeddingRaises ==
    /\ pc = "retrieving"
    /\ next_sub <= Len(sub_queries)
    /\ pc' = "raised"
    /\ UNCHANGED << pipelineVars, callVars, iteration, fusionVars, decomposeVars, compressVars, queryVars >>

\* lines 566-577
Deduplicate ==
    /\ pc = "retrieving"
    /\ next_sub > Len(sub_queries)
    /\ unique_docs' = Deduplicated(all_documents)
    /\ pc' = "deduplicated"
    /\ UNCHANGED << pipelineVars, callVars, iteration, fusionVars, decomposeVars, compressVars,
                    user_query, expand, cross_encoder, indexed, expanded_query, search_query,
                    next_sub, all_documents, reranked_docs, final_docs, result >>

\* variant: a scoring call that raises leaves the pipeline without its
\* cross-encoder
RerankDroppingEncoder ==
    /\ pc = "deduplicated"
    /\ \E outcome \in {"by_length", "constant", "raises"} :
          /\ reranked_docs' =
                IF iteration >= 2
                THEN rerank_documents(unique_docs, top_k * 2, iteration,
                                      cross_encoder, outcome)
                ELSE Take(unique_docs, top_k * 2)
          /\ cross_encoder' = IF outcome = "raises" THEN None ELSE cross_encoder
    /\ pc' = "reranked"
    /\ UNCHANGED << pipelineVars, callVars, iteration, fusionVars, decomposeVars, compressVars,
                    user_query, expand, indexed, expanded_query, search_query,
                    next_sub, all_documents, unique_docs, final_docs, result >>

\* lines 579-583
Rerank ==
    /\ pc = "deduplicated"
    /\ \E outcome \in {"by_length", "constant", "raises"} :
          reranked_docs' =
              IF iteration >= 2
              THEN rerank_documents(unique_docs, top_k * 2, iteration,
                                    cross_encoder, outcome)
              ELSE Take(unique_docs, top_k * 2)
    /\ pc' = "reranked"
    /\ UNCHANGED << pipelineVars, callVars, iteration, fusionVars, decomposeVars, compressVars,
                    user_query, expand, cross_encoder, indexed, expanded_query, search_query,
                    next_sub, all_documents, unique_docs, final_docs, result >>

\* variant: after the compression the re-ranking is entered again
CompressThenRerankAgain ==
    /\ pc = "reranked"
    /\ IF iteration >= 4
       THEN /\ documents' = Take(reranked_docs, top_k)
            /\ calls' \in [1..Len(documents') -> PipelineCalls]
            /\ compressed_docs' = compress_context(documents', calls', iteration)
            /\ final_docs' = compressed_docs'
       ELSE /\ final_docs' = Take(reranked_docs, top_k)
            /\ UNCHANGED compressVars
    /\ pc' = "deduplicated"
    /\ UNCHANGED << pipelineVars, callVars, iteration, fusionVars, decomposeVars,
                    user_query, expand, cross_encoder, indexed, expanded_query, search_query,
                    next_sub, all_documents, unique_docs, reranked_docs, result >>

\* variant: the re-ranked candidates are handed on without the cut to top_k
CompressUncut ==
    /\ pc = "reranked"
    /\ IF iteration >= 4
       THEN /\ documents' = reranked_docs
            /\ calls' \in [1..Len(documents') -> PipelineCalls]
            /\ compressed_docs' = compress_context(documents', calls', iteration)
            /\ final_docs' = compressed_docs'
       ELSE /\ final_docs' = reranked_docs
            /\ UNCHANGED compressVars
    /\ pc' = "compressed"
    /\ UNCHANGED << pipelineVars, callVars, iteration, fusionVars, decomposeVars,
                    user_query, expand, cross_encoder, indexed, expanded_query, search_query,
                    next_sub, all_documents, unique_docs, reranked_docs, result >>

\* lines 585-589
Compress ==
    /\ pc = "reranked"
    /\ IF iteration >= 4
       THEN /\ documents' = Take(reranked_docs, top_k)
            /\ calls' \in [1..Len(documents') -> PipelineCalls]
            /\ compressed_docs' = compress_context(documents', calls', iteration)
            /\ final_docs' = compressed_docs'
       ELSE /\ final_docs' = Take(reranked_docs, top_k)
            /\ UNCHANGED compressVars
    /\ pc' = "compressed"
    /\ UNCHANGED << pipelineVars, callVars, iteration, fusionVars, decomposeVars,
                    user_query, expand, cross_encoder, indexed, expanded_query, search_query,
                    next_sub, all_documents, unique_docs, reranked_docs, result >>

\* generate_answer, lines 478-529: the dict returned when the generation
\* call answers and when it raises (context_length is left out)
ErrorPrefix == <<"E", "r", "r", "o", "r", " ", "g", "e", "n", "e", "r", "a", "t", "i", "n", "g", " ", "a", "n", "s", "w", "e", "r", ":", " ">>

\* variant: no answer field when the generation call raises
generate_answer_or_nothing(docs, call) ==
    IF call.raises THEN [ sources |-> docs, model |-> "CHAT_MODEL" ]
    ELSE [ answer |-> Strip(call.text), sources |-> docs, model |-> "CHAT_MODEL" ]

\* variant: the sources are dropped when the generation call raises
generate_answer_without_sources(docs, call) ==
    [ answer |-> IF call.raises THEN ErrorPrefix \o call.text ELSE Strip(call.text),
      sources |-> IF call.raises THEN <<>> ELSE docs,
      model |-> "CHAT_MODEL" ]

generate_answer(docs, call) ==
    [ answer |-> IF call.raises THEN ErrorPrefix \o call.text ELSE Strip(call.text),
      sources |-> docs,
      model |-> "CHAT_MODEL" ]

\* the outcomes of the answer-generation call: it raises with a message,
\* or it answers with a text
AnswerCalls ==
    { [raises |-> TRUE, text |-> <<"t", "i", "m", "e", "o", "u", "t">>],
      [raises |-> FALSE, text |-> <<" ", "1", "2", "0", " ", "b", "n", " ", "K", "Z", "T", " ">>] }

\* line 592
GenerateAnswer ==
    /\ pc = "compressed"
    /\ generation' \in AnswerCalls
    /\ result' = generate_answer(final_docs, generation')
    /\ pc' = "generated"
    /\ UNCHANGED << pipelineVars, scoring, encode_raises, search_raises, issued, iteration, fusionVars, decomposeVars, compressVars,
                    user_query, expand, cross_encoder, indexed, expanded_query, search_query,
                    next_sub, all_documents, unique_docs, reranked_docs, final_docs >>

\* lines 594-605 (processing_time is left out)
ReturnResult ==
    /\ pc = "generated"
    /\ result' = [ original_query |-> user_query,
                   expanded_query |-> expanded_query,
                   sub_queries |-> sub_queries,
                   metadata_filters |-> metadata,
                   num_sources |-> Len(final_docs),
                   iteration |-> iteration ] @@ result
    /\ pc' = "returned"
    /\ UNCHANGED << pipelineVars, callVars, iteration, fusionVars, decomposeVars, compressVars,
                    user_query, expand, cross_encoder, indexed, expanded_query, search_query,
                    next_sub, all_documents, unique_docs, reranked_docs, final_docs >>

QueryNext ==
    \/ Expand
    \/ Decompose
    \/ Retrieve
    \/ EmbeddingRaises
    \/ Deduplicate
    \/ Rerank
    \/ Compress
    \/ GenerateAnswer
    \/ ReturnResult

SpecQuery == QueryInit /\ [][QueryNext]_vars

(***************************************************************************)
(* The shared embedding model, src/rag-basics/embeddings.py lines 8-21: up *)
(* to MaxPipelines pipelines are built one after another in one process,   *)
(* each of them constructing EmbeddingModel() (lines 37-39 of the          *)
(* pipeline).                                                              *)
(***************************************************************************)
\* the n-th object allocated by super().__new__(cls)
Object(n) == "EmbeddingModel#" \o ToString(n)

\* variant: __new__ allocates an object at every construction
new_always(instance, count) == Object(count + 1)

\* __new__, lines 12-15: the object the construction works on
new(instance, count) == IF instance = None THEN Object(count + 1) ELSE instance

\* __init__, lines 17-21: what the construction does about the model
init(model, load_raises) ==
    IF model # None THEN "none"
    ELSE IF load_raises THEN "raised" ELSE "done"

EmbeddingInit ==
    /\ pc = "process"
    /\ iteration = 1
    /\ cls_instance = None
    /\ instance_model = None
    /\ allocated = 0
    /\ pipelines = <<>>
    /\ embedding_model = None
    /\ collection = None
    /\ calls_done = 0
    /\ FusionIdle
    /\ DecomposeIdle
    /\ CompressIdle
    /\ QueryIdle
    /\ CallIdle

\* EnhancedRAGPipeline(iteration=level), lines 33-39: the construction of
\* EmbeddingModel(), whose loading of the model either succeeds or raises
BuildPipeline ==
    /\ pc = "process"
    /\ Len(pipelines) < MaxPipelines
    /\ \E level \in Levels, load_raises \in BOOLEAN,
          self \in {new(cls_instance, allocated)} :
          /\ load_raises => instance_model = None
          /\ cls_instance' = self
          /\ allocated' = IF self = Object(allocated + 1) THEN allocated + 1 ELSE allocated
          /\ instance_model' =
                IF init(instance_model, load_raises) = "done"
                THEN "SentenceTransformer" ELSE instance_model
          /\ pipelines' =
                Append(pipelines,
                       [ iteration |-> level,
                         load |-> init(instance_model, load_raises),
                         embedding_model |->
                            IF init(instance_model, load_raises) = "raised"
                            THEN None ELSE self ])
    /\ UNCHANGED << pc, iteration, embedding_model, collection, calls_done,
                    fusionVars, decomposeVars, compressVars, queryVars, callVars >>

EmbeddingNext == BuildPipeline

SpecEmbedding == EmbeddingInit /\ [][EmbeddingNext]_vars

(***************************************************************************)
(* Several calls: up to MaxCalls calls of query() made one after another   *)
(* on one pipeline whose index holds the whole collection.                 *)
(***************************************************************************)
CallsInit ==
    /\ QueryInit
    /\ indexed = Range(Collection)

\* a call of query() has ended, by its return or by an exception; the next
\* one starts with its own arguments and fresh local variables
NextQuery ==
    /\ pc \in {"returned", "raised"}
    /\ calls_done < MaxCalls
    /\ calls_done' = calls_done + 1
    /\ pc' = "query"
    /\ user_query' \in UserQueries
    /\ expand' \in BOOLEAN
    /\ top_k' \in 1..MaxQueryTopK
    /\ expanded_query' = <<>>
    /\ search_query' = <<>>
    /\ sub_queries' = <<>>
    /\ metadata' = EmptyDict
    /\ next_sub' = 0
    /\ all_documents' = <<>>
    /\ unique_docs' = <<>>
    /\ reranked_docs' = <<>>
    /\ final_docs' = <<>>
    /\ documents' = <<>>
    /\ calls' = <<>>
    /\ compressed_docs' = <<>>
    /\ result' = EmptyDict
    /\ generation' = NoCall
    /\ issued' = <<>>
    /\ UNCHANGED << iteration, cross_encoder, indexed, embedding_model, collection,
                    embeddingVars, query, scoring, encode_raises, search_raises,
                    alpha, dense_answer, sparse_answer, vector_results, bm25_results,
                    merged, results, path >>

CallsNext == QueryNext \/ NextQuery

SpecCalls == CallsInit /\ [][CallsNext]_vars

(***************************************************************************)
(* Properties of the fusion.                                               *)
(***************************************************************************)
Returned == pc = "returned"

KeysOf(list) == { IdentityKey(list[i]) : i \in 1..Len(list) }

PositionsOf(list, key) == { i \in 1..Len(list) : IdentityKey(list[i]) = key }

LastPositionOf(list, key) ==
    CHOOSE i \in PositionsOf(list, key) : \A j \in PositionsOf(list, key) : j <= i

RECURSIVE SumOver(_, _)
\* the sum of normalized_score over the positions P of list
SumOver(list, P) ==
    IF P = {} THEN RZero
    ELSE LET i == CHOOSE j \in P : TRUE
         IN  RAdd(list[i]["normalized_score"], SumOver(list, P \ {i}))

NoRepeatedKey(list) ==
    \A i, j \in 1..Len(list) : i # j => IdentityKey(list[i]) # IdentityKey(list[j])

\* C1: the list hybrid_search returns (feature level 1 or more, so that both
\* searches are issued) holds at most one candidate per identity key,
\* whatever the two retrievers return, also when one of the lists is empty.
C1_OnePerKey == (Returned /\ iteration >= 1) => NoRepeatedKey(results)

\* the normalized scores a list holds for a key, {0} when it holds none
ScoresFor(list, key) ==
    IF PositionsOf(list, key) = {} THEN {RZero}
    ELSE { list[i]["normalized_score"] : i \in PositionsOf(list, key) }

Blend(a, nd, ns) == RAdd(RMul(a, nd), RMul(RSub(ROne, a), ns))

RawScore(doc) == IF "similarity" \in DOMAIN doc THEN doc["similarity"] ELSE doc["score"]

InUnitInterval(x) == RLeq(RZero, x) /\ RLeq(x, ROne)

\* C3: after normalization of two non-empty lists every normalized_score
\* lies in [0,1], and a candidate with a raw score <= 0 has normalized_score 0.
C3_NormalizedInUnitInterval ==
    (Returned /\ path = "fused") =>
        \A list \in {vector_results, bm25_results} :
            \A i \in 1..Len(list) :
                /\ InUnitInterval(list[i]["normalized_score"])
                /\ RLeq(RawScore(list[i]), RZero) => list[i]["normalized_score"] = RZero

IsTop(list, i) == \A j \in 1..Len(list) : RLeq(RawScore(list[j]), RawScore(list[i]))

\* C4 as stated: for non-empty lists the dense candidate with the highest
\* raw similarity and the sparse candidate with the highest raw score have
\* normalized_score exactly 1.
C4_TopIsOne ==
    (Returned /\ path = "fused") =>
        \A list \in {vector_results, bm25_results} :
            \A i \in 1..Len(list) :
                IsTop(list, i) => list[i]["normalized_score"] = ROne

\* C4 amended: for non-empty lists the candidate with the highest raw score
\* of its list has normalized_score exactly 1 when that raw score is
\* positive, and 0 when it is zero or negative.
C4_TopIsOneWhenPositive ==
    (Returned /\ path = "fused") =>
        \A list \in {vector_results, bm25_results} :
            \A i \in 1..Len(list) :
                IsTop(list, i) =>
                    list[i]["normalized_score"] =
                        IF RLess(RZero, RawScore(list[i])) THEN ROne ELSE RZero

\* a fused result whose top dense similarity is positive and below 1 and
\* whose top sparse score is 0
C4_Witness ==
    /\ Returned /\ path = "fused"
    /\ \E i \in 1..Len(vector_results) :
          /\ IsTop(vector_results, i)
          /\ RLess(RZero, RawScore(vector_results[i]))
          /\ RLess(RawScore(vector_results[i]), ROne)
    /\ \E i \in 1..Len(bm25_results) :
          IsTop(bm25_results, i) /\ RawScore(bm25_results[i]) = RZero


\* the lists the two retrievers hand to hybrid_search at level 1 or more
DenseList == vector_search(dense_answer, top_k * 2)
SparseList == bm25_search(sparse_answer, top_k * 2, iteration)

Min(a, b) == IF a < b THEN a ELSE b

\* returned is the first k elements of list, each exactly as the retriever
\* built it (no field added, none changed)
IsUntouchedPrefix(returned, list, k) ==
    /\ Len(returned) = Min(k, Len(list))
    /\ \A i \in 1..Len(returned) : returned[i] = list[i]
    /\ \A i \in 1..Len(returned) :
          DOMAIN returned[i] \cap {"normalized_score", "hybrid_score"} = {}

\* C5: with an empty sparse list and a non-empty dense list D the result is
\* the first top_k elements of D in order, untouched; symmetrically for an
\* empty dense list; with both empty the result is empty.
C5_OneEmptyPassesThrough ==
    (Returned /\ iteration >= 1) =>
        /\ (SparseList = <<>> /\ DenseList # <<>>) =>
              IsUntouchedPrefix(results, DenseList, top_k)
        /\ (DenseList = <<>> /\ SparseList # <<>>) =>
              IsUntouchedPrefix(results, SparseList, top_k)
        /\ (DenseList = <<>> /\ SparseList = <<>>) => results = <<>>

\* the sparse list is empty, the dense list is longer than top_k and is cut
C5_Witness ==
    /\ Returned /\ iteration >= 1
    /\ SparseList = <<>>
    /\ Len(DenseList) > top_k
    /\ Len(results) = top_k

\* the hybrid_score the dict holds for key when the same lists are fused
\* with the weight a
HybridScoreAt(a, key) ==
    LET m == hybrid_search(dense_answer, sparse_answer, top_k, a, iteration).merged
    IN  m[IndexOfKey(m, key)].doc["hybrid_score"]

\* the entries of the dict whose key is only in the dense list and whose
\* normalized score is not negative
DenseOnlyEntries ==
    { i \in 1..Len(merged) :
        /\ merged[i].key \notin KeysOf(bm25_results)
        /\ RLeq(RZero, merged[i].doc["normalized_score"]) }

\* C6 as stated: the hybrid_score of a candidate whose key is only in the
\* dense list (normalized score in [0,1]) strictly increases whenever alpha
\* is increased.
C6_StrictlyIncreasingInAlpha ==
    (Returned /\ path = "fused") =>
        \A i \in DenseOnlyEntries : \A a \in Alphas :
            RLess(alpha, a) =>
                RLess(merged[i].doc["hybrid_score"], HybridScoreAt(a, merged[i].key))

\* C6 amended: the hybrid_score of a candidate whose key is only in the
\* dense list strictly increases whenever alpha is increased, provided its
\* normalized score is positive; with a normalized score of 0 it is 0 for
\* every alpha.
C6_IncreasingWhenPositive ==
    (Returned /\ path = "fused") =>
        \A i \in DenseOnlyEntries : \A a \in Alphas :
            LET nd == merged[i].doc["normalized_score"]
            IN  /\ (RLess(alpha, a) /\ RLess(RZero, nd)) =>
                      RLess(merged[i].doc["hybrid_score"],
                            HybridScoreAt(a, merged[i].key))
                /\ nd = RZero => HybridScoreAt(a, merged[i].key) = RZero

\* a dense-only candidate with a positive normalized score below 1, fused
\* with alpha = 0.5
C6_Witness ==
    /\ Returned /\ path = "fused"
    /\ alpha = <<1, 2>>
    /\ \E i \in DenseOnlyEntries :
          /\ RLess(RZero, merged[i].doc["normalized_score"])
          /\ RLess(merged[i].doc["normalized_score"], ROne)


(***************************************************************************)
(* Properties of the decomposition.                                        *)
(***************************************************************************)
\* the known categories the query names, in the order of Config.BANKS
NamedBanks ==
    LET named == { k \in 1..Len(BankNames) : Contains(Lower(query), Lower(BankNames[k])) }
        nth[i \in 1..Cardinality(named)] ==
            CHOOSE k \in named : Cardinality({ j \in named : j < k }) = i - 1
    IN  [i \in 1..Cardinality(named) |-> BankNames[nth[i]]]

HasComparisonKeyword == \E kw \in ComparisonKeywords : Contains(Lower(query), kw)

HasTrendKeyword == \E kw \in TrendKeywords : Contains(Lower(query), kw)

\* C7: at feature level 3 or more, a query with a comparison keyword that
\* names n >= 2 known banks is decomposed into exactly n sub-queries, the
\* i-th being the rewrite of the query for the i-th extracted bank.
C7_OneSubQueryPerBank ==
    (Returned /\ iteration >= 3 /\ HasComparisonKeyword /\ Len(NamedBanks) >= 2) =>
        /\ metadata.banks = NamedBanks
        /\ Len(sub_queries) = Len(NamedBanks)
        /\ \A i \in 1..Len(sub_queries) :
              sub_queries[i] = ComparisonSubQuery(query, NamedBanks[i])

\* a comparison of two banks whose sub-queries differ and name their bank
C7_Witness ==
    /\ Returned /\ iteration >= 3 /\ HasComparisonKeyword
    /\ Len(NamedBanks) = 2
    /\ Len(sub_queries) = 2
    /\ sub_queries[1] # sub_queries[2]
    /\ Contains(sub_queries[1], <<"'", "s">>)

\* C8: at every feature level, a query with no comparison keyword and no
\* trend keyword is returned as the single sub-query, unchanged.
C8_SimpleQueryUnchanged ==
    (Returned /\ ~HasComparisonKeyword /\ ~HasTrendKeyword) =>
        sub_queries = <<query>>

\* a query at level 3 or more that names two banks and refers to "both
\* banks" but has no keyword
C8_Witness ==
    /\ Returned /\ iteration >= 3
    /\ ~HasComparisonKeyword /\ ~HasTrendKeyword
    /\ Len(NamedBanks) >= 2
    /\ Contains(query, <<"b", "o", "t", "h">>)
    /\ sub_queries = <<query>>


(***************************************************************************)
(* Properties of the compression.                                          *)
(***************************************************************************)
\* C9: whatever the generation calls do, compress_context returns as many
\* candidates as it was given, the i-th with the identity key of the i-th
\* input candidate.
C9_SameCountSameOrder ==
    Returned =>
        /\ Len(compressed_docs) = Len(documents)
        /\ \A i \in 1..Len(compressed_docs) :
              IdentityKey(compressed_docs[i]) = IdentityKey(documents[i])

\* compression is enabled; one document is compressed and another, with a
\* different key, got the sentinel or a failed call
C9_Witness ==
    /\ Returned /\ iteration >= 4
    /\ Len(documents) >= 2
    /\ IdentityKey(documents[1]) # IdentityKey(documents[2])
    /\ \E i, j \in 1..Len(documents) :
          /\ compressed_docs[i]["compressed"] = TRUE
          /\ (calls[j].raises \/ Strip(calls[j].text) = NoRelevantInfo)

(***************************************************************************)
(* Properties of query().                                                  *)
(***************************************************************************)
\* the loop over the sub-queries is over and unique_docs is built
Deduplicated2 ==
    /\ pc \in {"deduplicated", "reranked", "compressed", "generated", "returned"}
    /\ Len(sub_queries) = 2

\* C10 as stated: for a query decomposed into 2 sub-queries, the candidates
\* left after the deduplication by identity key are at most 2 * top_k.
C10_AtMostTwiceTopK ==
    Deduplicated2 => Len(unique_docs) <= 2 * top_k

\* C10: for a query decomposed into 2 sub-queries, the candidates left
\* after the deduplication by identity key have distinct keys and are at
\* most 4 * top_k, that is 2 * top_k for each sub-query.
C10_AtMostTwiceTopKPerSubQuery ==
    Deduplicated2 =>
        /\ NoRepeatedKey(unique_docs)
        /\ Len(unique_docs) <= 2 * Len(sub_queries) * top_k

\* two sub-queries whose results share a candidate, which the
\* deduplication drops, and leave more than 2 * top_k candidates
C10_Witness ==
    /\ Deduplicated2
    /\ Len(all_documents) > Len(unique_docs)
    /\ Len(unique_docs) > 2 * top_k

\* the loop over the sub-queries is over
RetrievalOver == next_sub > Len(sub_queries) /\ Len(sub_queries) >= 1

\* C11: when the two searches gave nothing for every sub-query, query()
\* does not raise and returns a result with num_sources 0, no sources and
\* an answer field, at every feature level and whether the generation call
\* answers or raises.
C11_NothingRetrievedStillAnswered ==
    (RetrievalOver /\ all_documents = <<>>) =>
        /\ pc # "raised"
        /\ pc = "returned" =>
              /\ result["num_sources"] = 0
              /\ result["sources"] = <<>>
              /\ "answer" \in DOMAIN result

\* a comparison over a non-empty index whose searches all failed, at the
\* highest feature level, and a generation call that raised
C11_Witness ==
    /\ pc = "returned"
    /\ all_documents = <<>>
    /\ indexed # {}
    /\ Len(sub_queries) = 2
    /\ iteration = 4
    /\ generation.raises
    /\ result["num_sources"] = 0

(***************************************************************************)
(* Properties of the re-ranking.                                           *)
(***************************************************************************)
\* rerank_documents has returned after scoring by length
RerankedByLength ==
    /\ pc = "returned"
    /\ iteration >= 2
    /\ cross_encoder = "loaded"
    /\ scoring = "by_length"

\* the input candidates in the order p
Permuted(list, p) == [i \in 1..Len(list) |-> list[p[i]]]

\* re-ranking the input in any other order gives the list that was returned
SameForEveryInputOrder ==
    \A p \in Permutations(1..Len(documents)) :
        rerank_documents(Permuted(documents, p), top_k, iteration,
                         cross_encoder, scoring) = reranked_docs

\* the number of characters of the content that the scoring model is given
GivenLength(doc) == Len(Take(doc["content"], ContentLimit))

\* the place of the i-th input candidate in a descending order by given
\* length in which candidates of equal given length keep their input order
PlaceOf(i) ==
    1 + Cardinality({ j \in 1..Len(documents) :
                        \/ GivenLength(documents[j]) > GivenLength(documents[i])
                        \/ (GivenLength(documents[j]) = GivenLength(documents[i]) /\ j < i) })

\* C12 as stated: with a scoring model that returns the length of the
\* content, the candidates come back by descending content length, and the
\* returned list is the same whatever the order of the input.
C12_ByLengthWhateverInputOrder ==
    RerankedByLength =>
        /\ \A i, j \in 1..Len(reranked_docs) :
              i < j => Len(reranked_docs[i]["content"]) >= Len(reranked_docs[j]["content"])
        /\ SameForEveryInputOrder

\* C12: with a scoring model that returns the length of the content it is
\* given, which is the first ContentLimit characters, the first top_k
\* candidates come back by descending given length, candidates of equal
\* given length in their input order; the returned list is the same
\* whatever the order of the input when the given lengths all differ.
C12_ByGivenLengthTiesInInputOrder ==
    RerankedByLength =>
        /\ Len(reranked_docs) = Min(top_k, Len(documents))
        /\ \A i \in 1..Len(documents) :
              PlaceOf(i) <= top_k =>
                  reranked_docs[PlaceOf(i)] =
                      Put(documents[i], "rerank_score", <<GivenLength(documents[i]), 1>>)
        /\ (\A i, j \in 1..Len(documents) :
               i # j => GivenLength(documents[i]) # GivenLength(documents[j]))
           => SameForEveryInputOrder

\* two candidates given in ascending order of length, both returned, the
\* longer first
C12_Witness ==
    /\ RerankedByLength
    /\ Len(documents) >= 2 /\ top_k >= 2
    /\ GivenLength(documents[1]) < GivenLength(documents[2])
    /\ reranked_docs[1]["content"] = documents[2]["content"]
    /\ reranked_docs[2]["content"] = documents[1]["content"]

(***************************************************************************)
(* Properties of query(): termination and failures.                        *)
(***************************************************************************)
\* C13: whichever external calls fail, no failure leaves query() as an
\* exception, so that every call can go on to return its result.
C13_NoFailureLeavesQuery == pc # "raised"

\* the fields query() adds to the result of generate_answer
EnvelopeFields ==
    {"original_query", "expanded_query", "sub_queries", "metadata_filters",
     "num_sources", "iteration"}

\* C14: when the generation call raises, generate_answer returns a result
\* whose answer contains the error message and whose sources are the
\* candidates it was given, and query() returns it in the usual envelope
\* with num_sources the number of these candidates.
C14_FailedGenerationStillEnveloped ==
    (generation.raises /\ pc \in {"generated", "returned"}) =>
        /\ Contains(result["answer"], generation.text)
        /\ result["sources"] = final_docs
        /\ pc = "returned" =>
              /\ EnvelopeFields \subseteq DOMAIN result
              /\ result["num_sources"] = Len(final_docs)
              /\ result["original_query"] = user_query

\* a returned call whose generation raised after candidates were retrieved
C14_Witness ==
    /\ pc = "returned"
    /\ generation.raises
    /\ Len(final_docs) >= 1
    /\ result["num_sources"] = Len(result["sources"])
    /\ Len(generation.text) > 0

(***************************************************************************)
(* Properties of the dense retrieval.                                      *)
(***************************************************************************)
\* C15: vector_search does not raise: when the embedding call or the
\* nearest-neighbour call of the index fails, it returns an empty list.
C15_FailedSearchGivesEmptyList ==
    (pc # "vector_search" /\ (encode_raises \/ search_raises)) =>
        /\ pc = "returned"
        /\ vector_results = <<>>

(***************************************************************************)
(* Properties of query(): the order of the stages.                         *)
(***************************************************************************)
\* the positions of a query() call, in the order of the stages: at
\* "query" nothing has run, at "expanded" the expansion is done, at
\* "retrieving" the decomposition is done and the retrieval loop runs
Stages ==
    << "query", "expanded", "retrieving", "deduplicated", "reranked",
       "compressed", "generated", "returned" >>

StageOf(p) == CHOOSE i \in 1..Len(Stages) : Stages[i] = p

\* C16: a step of query() either retrieves for the next sub-query, or
\* completes the current stage and enters the one that follows it in the
\* fixed order (the retrieval only after its last sub-query), or leaves
\* query() with the exception of a retrieval; no stage is entered again
\* and none is skipped.
C16_StagesInFixedOrder ==
    [][ \/ /\ pc = "retrieving" /\ pc' = "retrieving"
           /\ next_sub <= Len(sub_queries)
           /\ next_sub' = next_sub + 1
        \/ /\ pc \in Range(Stages) /\ pc' \in Range(Stages)
           /\ StageOf(pc') = StageOf(pc) + 1
           /\ pc = "retrieving" => next_sub = Len(sub_queries) + 1
        \/ /\ pc = "retrieving" /\ pc' = "raised"
    ]_vars

\* a returned call that expanded its query, retrieved for two sub-queries
\* and ran the re-ranking and the compression
C16_Witness ==
    /\ pc = "returned"
    /\ expand /\ expanded_query # user_query
    /\ Len(sub_queries) = 2 /\ next_sub = Len(sub_queries) + 1
    /\ iteration = 4 /\ cross_encoder = "loaded"
    /\ Len(final_docs) >= 1

(***************************************************************************)
(* Properties of query(): the merge across sub-queries.                    *)
(***************************************************************************)
\* unique_docs is built
MergeDone == pc \in {"deduplicated", "reranked", "compressed", "generated", "returned"}

\* the positions of all_documents that hold the first candidate of a key
FirstOfKey ==
    { i \in 1..Len(all_documents) :
        \A j \in 1..(i - 1) :
            IdentityKey(all_documents[j]) # IdentityKey(all_documents[i]) }

\* C17: the merge keeps, for each identity key, the first candidate with
\* that key of the concatenated results and drops the later ones; the kept
\* candidates stay in their order, and no key occurs twice.
C17_FirstOfEachKeyInOrder ==
    MergeDone =>
        /\ Len(unique_docs) = Cardinality(FirstOfKey)
        /\ \A i \in FirstOfKey :
              unique_docs[1 + Cardinality({ j \in FirstOfKey : j < i })] = all_documents[i]
        /\ NoRepeatedKey(unique_docs)

\* two sub-queries returned different candidates for one key; the first is
\* kept, after another candidate that stays before it
C17_Witness ==
    /\ MergeDone
    /\ Len(sub_queries) = 2
    /\ \E i, j \in 1..Len(all_documents) :
          /\ i < j /\ i > 1
          /\ IdentityKey(all_documents[i]) = IdentityKey(all_documents[j])
          /\ all_documents[i] # all_documents[j]
          /\ i \in FirstOfKey
          /\ unique_docs[i] = all_documents[i]
    /\ Len(unique_docs) < Len(all_documents)

(***************************************************************************)
(* Properties of the re-ranking: pass-through.                             *)
(***************************************************************************)
\* the call did not get scores: re-ranking disabled, no cross-encoder
\* loaded, or a scoring call that raised
NotScored == iteration < 2 \/ cross_encoder = None \/ scoring = "raises"

\* C18: when re-ranking is disabled, the cross-encoder is not loaded or
\* the scoring call raises, rerank_documents returns, without raising,
\* the first top_k input candidates in their input order.
C18_PassThroughWhenNotScored ==
    /\ pc \in {"rerank_documents", "returned"}
    /\ (pc = "returned" /\ NotScored) =>
          /\ Len(reranked_docs) = Min(top_k, Len(documents))
          /\ \A i \in 1..Len(reranked_docs) : reranked_docs[i] = documents[i]

\* a loaded cross-encoder whose scoring call raised, on more than top_k
\* candidates that scoring by length would have reordered
C18_Witness ==
    /\ pc = "returned"
    /\ iteration >= 2 /\ cross_encoder = "loaded" /\ scoring = "raises"
    /\ Len(documents) > top_k
    /\ Len(documents[1]["content"]) < Len(documents[2]["content"])
    /\ reranked_docs = <<documents[1]>>

(***************************************************************************)
(* Properties of the compression: what happens to the content.             *)
(***************************************************************************)
\* the generation call for the i-th document answered the sentinel
AnsweredSentinel(i) == ~calls[i].raises /\ Strip(calls[i].text) = NoRelevantInfo

\* the content of the i-th returned candidate is not the one it came with
ContentReplaced(i) == compressed_docs[i]["content"] # documents[i]["content"]

\* C19: with compression enabled, a candidate whose generation call
\* answers the NO_RELEVANT_INFO sentinel or fails is returned with the
\* content it came with; a content is replaced only by the stripped answer
\* of a call that did not fail and did not answer the sentinel, and then
\* original_content holds the content the candidate came with.
C19_ContentKeptUnlessUsable ==
    (Returned /\ iteration >= 4) =>
        /\ Len(compressed_docs) = Len(documents)
        /\ \A i \in 1..Len(documents) :
              /\ (calls[i].raises \/ AnsweredSentinel(i)) => ~ContentReplaced(i)
              /\ ContentReplaced(i) =>
                    /\ ~calls[i].raises /\ ~AnsweredSentinel(i)
                    /\ compressed_docs[i]["content"] = Strip(calls[i].text)
                    /\ "original_content" \in DOMAIN compressed_docs[i]
                    /\ compressed_docs[i]["original_content"] = documents[i]["content"]

\* two candidates: the call of the first answered the sentinel padded with
\* blanks, the second got a new content
C19_Witness ==
    /\ Returned /\ iteration >= 4
    /\ Len(documents) = 2
    /\ AnsweredSentinel(1) /\ calls[1].text # NoRelevantInfo
    /\ ~ContentReplaced(1)
    /\ ContentReplaced(2)
    /\ compressed_docs[2]["original_content"] = documents[2]["content"]

(***************************************************************************)
(* Properties of the decomposition: comparison before trend.               *)
(***************************************************************************)
\* what the comparison branch gives for the query
ComparisonBranch ==
    IF Len(NamedBanks) >= 2
    THEN [i \in 1..Len(NamedBanks) |-> ComparisonSubQuery(query, NamedBanks[i])]
    ELSE <<query>>

\* C20: at feature level 3 or more, a query with a comparison keyword and
\* a trend keyword gets the sub-queries of the comparison branch, and a
\* query with trend keywords only is returned as the single sub-query,
\* unchanged.
C20_ComparisonBeforeTrend ==
    (Returned /\ iteration >= 3 /\ HasTrendKeyword) =>
        IF HasComparisonKeyword THEN sub_queries = ComparisonBranch
        ELSE sub_queries = <<query>>

\* a query with both kinds of keyword that names two banks is split, as a
\* trend query would not be
C20_Witness ==
    /\ Returned /\ iteration >= 3
    /\ HasComparisonKeyword /\ HasTrendKeyword
    /\ Len(NamedBanks) = 2
    /\ Len(sub_queries) = 2
    /\ sub_queries[1] # query /\ sub_queries[1] # sub_queries[2]
    /\ Contains(Lower(sub_queries[1]), <<"g", "r", "o", "w", "t", "h">>)

(***************************************************************************)
(* Properties of the fusion: the order of the returned list.               *)
(***************************************************************************)
\* the candidates in the order the merge loops meet them: the dense list,
\* then the sparse list
Encountered == vector_results \o bm25_results

\* the place at which the merge loops first meet a candidate with the key
FirstSeen(key) ==
    CHOOSE i \in PositionsOf(Encountered, key) :
        \A j \in PositionsOf(Encountered, key) : i <= j

\* C21: the list a fusing hybrid_search returns is sorted by non-increasing
\* hybrid_score, and of two returned candidates with equal hybrid_score the
\* one whose identity key was met first comes first: a key of the dense
\* list before a key that only the sparse list has, and two keys of the
\* dense list in the order in which the dense list first has them.
C21_SortedTiesInEncounterOrder ==
    (Returned /\ path = "fused") =>
        \A i, j \in 1..Len(results) :
            i < j =>
                /\ RLeq(results[j]["hybrid_score"], results[i]["hybrid_score"])
                /\ results[i]["hybrid_score"] = results[j]["hybrid_score"] =>
                      FirstSeen(IdentityKey(results[i])) < FirstSeen(IdentityKey(results[j]))

\* two returned candidates with the same positive hybrid_score, the first
\* from the dense list and the second with a key only the sparse list has
C21_Witness ==
    /\ Returned /\ path = "fused"
    /\ Len(results) = 2
    /\ results[1]["hybrid_score"] = results[2]["hybrid_score"]
    /\ RLess(RZero, results[1]["hybrid_score"])
    /\ IdentityKey(results[1]) \in KeysOf(vector_results)
    /\ IdentityKey(results[2]) \notin KeysOf(vector_results)
    /\ IdentityKey(results[2]) \in KeysOf(bm25_results)

(***************************************************************************)
(* Properties of the decomposition: below feature level 3.                 *)
(***************************************************************************)
\* C22: below feature level 3 decompose_query returns, for every query, the
\* query itself as the single sub-query and the empty dict as metadata, for
\* which vector_search builds no filter.
C22_IdentityBelowLevelThree ==
    (Returned /\ iteration < 3) =>
        /\ sub_queries = <<query>>
        /\ metadata = EmptyDict
        /\ WhereFilter(metadata, iteration) = NoWhere

\* at level 2, a comparison of two banks for a quarter and a year, which
\* level 3 splits and filters
C22_Witness ==
    /\ Returned /\ iteration = 2
    /\ HasComparisonKeyword
    /\ Len(NamedBanks) = 2
    /\ Len(decompose_query(query, 3).sub_queries) = 2
    /\ WhereFilter(decompose_query(query, 3).metadata, 3) # NoWhere
    /\ sub_queries = <<query>>

(***************************************************************************)
(* Properties of the metadata extraction.                                  *)
(***************************************************************************)
NoRepeatedValue(list) == \A i, j \in 1..Len(list) : i # j => list[i] # list[j]

\* C23: the metadata extracted from a query hold no value twice: neither
\* the banks, nor the quarters, nor the years.
C23_NoRepeatedMetadataValue ==
    (Returned /\ iteration >= 3) =>
        /\ NoRepeatedValue(metadata.banks)
        /\ NoRepeatedValue(metadata.quarters)
        /\ NoRepeatedValue(metadata.years)

(***************************************************************************)
(* Properties of the identity key: records that lack fields.               *)
(***************************************************************************)
\* the field of the candidate, or the sentinel when it is missing or None
FieldOrSentinel(doc, f, sentinel) ==
    IF f \notin DOMAIN doc \/ doc[f] = None THEN sentinel ELSE doc[f]

KeyWithSentinels(doc) ==
    << FieldOrSentinel(doc, "bank_name", "unknown"),
       FieldOrSentinel(doc, "quarter", "unknown"),
       FieldOrSentinel(doc, "year", "0"),
       FieldOrSentinel(doc, "report_type", "unknown") >>

LacksField(doc) ==
    \E f \in {"bank_name", "quarter", "year", "report_type"} :
        f \notin DOMAIN doc \/ doc[f] = None

\* C24: hybrid_search and the deduplication of query() do not raise on
\* candidates with a missing or None identity field; every candidate of the
\* two fused lists has an entry in the dict under its key with 'unknown'
\* (0 for the year) for such a field, and every retrieved candidate has
\* exactly one candidate with this key among the deduplicated ones.
C24_SentinelKeyTakesPart ==
    /\ pc \in {"hybrid_search", "returned", "deduplicated"}
    /\ (pc # "hybrid_search" /\ path = "fused") =>
          \A i \in 1..Len(Encountered) :
              \E j \in 1..Len(merged) :
                  /\ merged[j].key = KeyWithSentinels(Encountered[i])
                  /\ KeyWithSentinels(merged[j].doc) = merged[j].key
    /\ pc = "deduplicated" =>
          \A i \in 1..Len(all_documents) :
              Cardinality({ j \in 1..Len(unique_docs) :
                              KeyWithSentinels(unique_docs[j]) =
                                  KeyWithSentinels(all_documents[i]) }) = 1

\* a fused and deduplicated retrieval that returns a candidate without
\* bank and one with no field at all beside a complete one
C24_Witness ==
    /\ pc = "deduplicated" /\ path = "fused"
    /\ Len(unique_docs) >= 2
    /\ \E i, j \in 1..Len(unique_docs) :
          /\ LacksField(unique_docs[i])
          /\ KeyWithSentinels(unique_docs[i]) = <<"unknown", "unknown", "0", "unknown">>
          /\ unique_docs[i]["source"] = "hybrid"
          /\ ~LacksField(unique_docs[j])
    /\ Len(all_documents) > Len(unique_docs)

(***************************************************************************)
(* Properties of the calls made on the index.                              *)
(***************************************************************************)
\* the extracted metadata name a bank, a quarter or a year
MetadataConstrains ==
    /\ metadata # EmptyDict
    /\ (metadata.banks # <<>> \/ metadata.quarters # <<>> \/ metadata.years # <<>>)

PhraseNaming(bank) == <<"W", "h", "a", "t", " ", "i", "s", " ">> \o bank \o <<"'", "s">>

\* C26: at feature level 3 or more, for a query with a comparison keyword
\* that names n >= 2 banks, the i-th of the n sub-queries has the phrase
\* naming the i-th bank where the query has its comparison phrase, which it
\* no longer holds, and holds no 'all/both/three bank(s)' reference.
C26_SubQueryRewrittenForItsBank ==
    (Returned /\ iteration >= 3 /\ HasComparisonKeyword /\ Len(NamedBanks) >= 2) =>
        /\ Len(sub_queries) = Len(NamedBanks)
        /\ \A i \in 1..Len(sub_queries) :
              /\ Contains(sub_queries[i], PhraseNaming(NamedBanks[i]))
              /\ \A kw \in ComparisonKeywords : ~Contains(Lower(sub_queries[i]), kw)
              /\ FindAll("plural_banks", sub_queries[i]) = <<>>

(***************************************************************************)
(* Properties of the pipeline over several calls.                          *)
(***************************************************************************)
\* C27: no step of a query() call, and no sequence of calls, changes the
\* feature level, the cross-encoder handle, the embedding-model handle, the
\* connection to the index or what the index holds.
C27_ConfigurationUnchanged ==
    [][ /\ iteration' = iteration
        /\ cross_encoder' = cross_encoder
        /\ embedding_model' = embedding_model
        /\ collection' = collection
        /\ indexed' = indexed ]_vars

\* the last of several calls has returned, with a scoring call that raised
\* during it, and the cross-encoder is still loaded
C27_Witness ==
    /\ pc = "returned"
    /\ calls_done = MaxCalls
    /\ iteration = 4
    /\ cross_encoder = "loaded"
    /\ embedding_model = "EmbeddingModel" /\ collection = "connected"
    /\ reranked_docs # <<>>
    /\ \A i \in 1..Len(reranked_docs) : "rerank_score" \notin DOMAIN reranked_docs[i]

(***************************************************************************)
(* Properties of the shared embedding model.                               *)
(***************************************************************************)
\* the constructions that returned an object
Yielding == { i \in 1..Len(pipelines) : pipelines[i].embedding_model # None }

\* C28 as stated: every construction of EmbeddingModel() yields the same
\* object, and the model is loaded by the first construction and by no
\* other.
C28_SameInstanceLoadedByFirst ==
    pipelines # <<>> =>
        /\ \A i \in 1..Len(pipelines) :
              /\ pipelines[i].embedding_model # None
              /\ pipelines[i].embedding_model = pipelines[1].embedding_model
        /\ pipelines[1].load = "done"
        /\ \A i \in 2..Len(pipelines) : pipelines[i].load = "none"

\* C28 amended: every construction of EmbeddingModel() that returns yields
\* the same object, the only one ever allocated; the model is loaded at
\* most once, by the first construction whose loading does not raise: the
\* constructions before it raised, and none after it loads or raises.
C28_SameInstanceLoadedOnce ==
    /\ allocated <= 1
    /\ \A i \in Yielding : pipelines[i].embedding_model = Object(1)
    /\ \A i \in 1..Len(pipelines) :
          /\ pipelines[i].load = "done" =>
                /\ \A j \in 1..(i - 1) : pipelines[j].load = "raised"
                /\ \A j \in (i + 1)..Len(pipelines) : pipelines[j].load = "none"
          /\ pipelines[i].load = "none" =>
                \E j \in 1..(i - 1) : pipelines[j].load = "done"
    /\ instance_model # None <=> \E i \in 1..Len(pipelines) : pipelines[i].load = "done"

\* three pipelines of different levels: the loading raised for the first,
\* the second loaded the model, the third got the same object without
\* loading
C28_Witness ==
    /\ Len(pipelines) = 3
    /\ pipelines[1].load = "raised"
    /\ pipelines[2].load = "done"
    /\ pipelines[3].load = "none"
    /\ pipelines[2].iteration # pipelines[3].iteration
    /\ pipelines[3].embedding_model = pipelines[2].embedding_model
    /\ pipelines[3].embedding_model # None

(***************************************************************************)
(* Properties of query(): the number of sources.                           *)
(***************************************************************************)
\* C29: at every feature level and whatever the optional stages did, the
\* result query() returns has at most top_k sources, its sources are the
\* candidates handed to the answer generation, and num_sources is their
\* number.
C29_AtMostTopKSources ==
    pc = "returned" =>
        /\ Len(result["sources"]) <= top_k
        /\ result["sources"] = final_docs
        /\ result["num_sources"] = Len(result["sources"])

\* a returned call for two sub-queries that had more than top_k candidates
\* after the deduplication and returns top_k sources
C29_Witness ==
    /\ pc = "returned"
    /\ Len(sub_queries) = 2
    /\ Len(unique_docs) > top_k
    /\ Len(reranked_docs) > top_k
    /\ result["num_sources"] = top_k
    /\ Len(result["sources"]) = top_k

(***************************************************************************)
(* Properties of the fusion: the range of hybrid_score.                    *)
(***************************************************************************)
\* C30: with alpha in [0,1] and two non-empty lists, which may repeat an
\* identity key, every candidate hybrid_search returns has a hybrid_score
\* in [0,1].
C30_HybridScoreInUnitInterval ==
    (Returned /\ path = "fused" /\ InUnitInterval(alpha)) =>
        \A i \in 1..Len(results) : InUnitInterval(results[i]["hybrid_score"])

=============================================================================
